---- MODULE Spec2Model ----
(***************************************************************************)
(* A model of lestrrat-go/sketch: the schema descriptors (package schema),  *)
(* and the behaviour of the object and builder that the templates           *)
(* object.go and object/builder generate for a schema.                      *)
(*                                                                          *)
(* Go values are records [k |-> <Go type name>, p |-> <payload>], the       *)
(* payload a sequence of strings (the elements of a list, the flattened     *)
(* key/value pairs of a map, the one-element text of a scalar).             *)
(* JSON values on the wire are records [j |-> <JSON kind>, p |-> payload].  *)
(***************************************************************************)
EXTENDS Naturals, Sequences, FiniteSets, TLC

VARIABLES
    fields,     \* the object's declared-field storage: unexported name -> value | Nil
    extra,      \* the object's extra storage: NilMap, or a map key -> value
    res,        \* the last call on the object and what it returned
    heap,       \* builder world: object id -> [fields, extra]
    bObject,    \* builder: b.object (an object id, or 0 for a nil pointer)
    bErr,       \* builder: b.err ("" for nil)
    bOnce,      \* builder: b.once has fired
    built,      \* builder world: what Build() handed out, [id, snap] in order
    bres,       \* what the last builder call returned
    mu,         \* concurrent callers: the object's sync.RWMutex, [readers, writer]
    calls,      \* concurrent callers: caller -> the call it is in, [method, arg, pc]
    input,      \* schema and tool functions: what the function is applied to
    output      \* schema and tool functions: the last call and what it returned

objVars == <<fields, extra, res>>
bldVars == <<heap, bObject, bErr, bOnce, built, bres>>
lockVars == <<mu, calls>>
\* what a call on the object, and a call on the builder, leaves alone
funVars == <<input, output>>
nonObjVars == <<bldVars, lockVars, funVars>>
nonBldVars == <<objVars, lockVars, funVars>>
nonFunVars == <<objVars, bldVars, lockVars>>
vars == <<fields, extra, res, heap, bObject, bErr, bOnce, built, bres, mu, calls,
          input, output>>

----------------------------------------------------------------------------
(* Go values *)

GoVal(k, p) == [k |-> k, p |-> p]

\* nil: a nil pointer, a nil slice, a nil map, a nil interface
Nil == GoVal("nil", <<>>)

\* &v
AddrOf(v) == GoVal("*" \o v.k, v.p)

Pointee == [t \in {"*string", "*Level"} |->
              IF t = "*string" THEN "string" ELSE "Level"]

\* *v
Deref(v) == GoVal(Pointee[v.k], v.p)

\* val.Get() of the two producer types of the example schema:
\*   type Names []string;  func (n *Names) Get() []string  (a copy of *n)
\*   type Level int;       func (l Level) Get() string     (the level's label)
Produce(v) ==
    IF v.k = "*Names" THEN GoVal("[]string", v.p)
    ELSE GoVal("string", v.p)

----------------------------------------------------------------------------
(* encoding/json, as far as the generated code uses it *)

JSONVal(j, p) == [j |-> j, p |-> p]

\* json.Encoder.Encode(v)
EncodeJSON(v) ==
    CASE v.k \in {"string"}                                -> JSONVal("string", v.p)
      [] v.k \in {"int", "float64", "Level"}               -> JSONVal("number", v.p)
      [] v.k \in {"[]string", "[]interface{}", "*Names"}   -> JSONVal("array", v.p)
      [] v.k \in {"map[string]string", "map[string]interface{}"}
                                                           -> JSONVal("object", v.p)
      [] OTHER                                             -> JSONVal("null", <<>>)

DecodeOK(v) == [ok |-> TRUE, v |-> v]
DecodeErr == [ok |-> FALSE, v |-> Nil]

\* json.Decoder.Decode(&val) with val of Go type typ
DecodeInto(typ, jv) ==
    CASE typ = "string" ->
            IF jv.j = "string" THEN DecodeOK(GoVal("string", jv.p))
            ELSE IF jv.j = "null" THEN DecodeOK(GoVal("string", <<"">>))
            ELSE DecodeErr
      [] typ = "Level" ->
            IF jv.j = "number" THEN DecodeOK(GoVal("Level", jv.p))
            ELSE IF jv.j = "null" THEN DecodeOK(GoVal("Level", <<"0">>))
            ELSE DecodeErr
      [] typ = "[]string" ->
            IF jv.j = "array" THEN DecodeOK(GoVal("[]string", jv.p))
            ELSE IF jv.j = "null" THEN DecodeOK(Nil)
            ELSE DecodeErr
      [] typ = "map[string]string" ->
            IF jv.j = "object" THEN DecodeOK(GoVal("map[string]string", jv.p))
            ELSE IF jv.j = "null" THEN DecodeOK(Nil)
            ELSE DecodeErr
      [] typ = "*Names" ->
            IF jv.j = "array" THEN DecodeOK(GoVal("*Names", jv.p))
            ELSE IF jv.j = "null" THEN DecodeOK(Nil)
            ELSE DecodeErr
      [] OTHER ->  \* interface{}
            CASE jv.j = "string" -> DecodeOK(GoVal("string", jv.p))
              [] jv.j = "number" -> DecodeOK(GoVal("float64", jv.p))
              [] jv.j = "array"  -> DecodeOK(GoVal("[]interface{}", jv.p))
              [] jv.j = "object" -> DecodeOK(GoVal("map[string]interface{}", jv.p))
              [] OTHER           -> DecodeOK(Nil)

----------------------------------------------------------------------------
(* package schema: TypeInfo and Field *)

\* What reflect.TypeOf(v) reports: the type's name (typeName), its kind, the
\* name of its element type and its exported methods.  A method is
\* [name, in, out], the types of its arguments and results; as
\* reflect.Type.MethodByName describes a method of a non-interface type, the
\* first of its arguments is the receiver.
ReflectType(name, kind, elem, methods) ==
    [name |-> name, kind |-> kind, elem |-> elem, methods |-> methods]

typInterface == "interface {}"
typError == "error"

\* rv.MethodByName(name): the methods of that name, one or none
MethodByName(rv, name) == { m \in rv.methods : m.name = name }

TypeInfoFrom(rv) ==
    [ name          |-> rv.name,
      indirectType  |-> IF rv.kind \in {"Ptr", "Slice", "Interface", "Array"}
                        THEN rv.name ELSE "*" \o rv.name,
      implementsGet |-> \E m \in MethodByName(rv, "Get") :
                            Len(m.in) = 0 /\ Len(m.out) = 1,
      implementsAccept |-> \E m \in MethodByName(rv, "Accept") :
                            /\ Len(m.in) = 1
                            /\ m.in[1] = typInterface
                            /\ Len(m.out) = 1
                            /\ m.out[1] = typError,
      isMap         |-> rv.kind = "Map",
      isSlice       |-> rv.kind = "Slice",
      userFacingType |-> rv.name ]

\* schema.Type(name): a TypeInfo by name only
TypeByName(name, isSlice, isMap) ==
    [ name          |-> name,
      indirectType  |-> "",
      implementsGet |-> FALSE,
      implementsAccept |-> FALSE,
      isMap         |-> isMap,
      isSlice       |-> isSlice,
      userFacingType |-> "" ]

ImplementsGet(ti, b) == [ti EXCEPT !.implementsGet = b]

NewField(name, ti) ==
    [ name |-> name, unexportedName |-> "", json |-> "",
      typ |-> ti, required |-> FALSE, extension |-> FALSE ]

Required(f, b) == [f EXCEPT !.required = b]
Extension(f, b) == [f EXCEPT !.extension = b]
GetExtension(f) == f.extension

GetName(f) == f.name
GetType(f) == f.typ.name
GetRequired(f) == f.required
\* xstrings.Camel(name, xstrings.WithLowerCamel(true)) on the names in use
LowerCamel(name) ==
    CASE name = "Attrs" -> "attrs"
      [] name = "Internal" -> "internal"
      [] name = "Level" -> "level"
      [] name = "List"  -> "list"
      [] name = "Name"  -> "name"
      [] name = "Tags"  -> "tags"
      [] OTHER          -> name

GetUnexportedName(f) ==
    IF f.unexportedName = "" THEN LowerCamel(f.name) ELSE f.unexportedName
GetJSON(f) == IF f.json = "" THEN GetUnexportedName(f) ELSE f.json
IsMap(f) == f.typ.isMap
IsSlice(f) == f.typ.isSlice
GetImplementsGet(f) == f.typ.implementsGet
GetImplementsAccept(f) == f.typ.implementsAccept
GetUserFacingType(f) == IF f.typ.userFacingType = "" THEN GetType(f) ELSE f.typ.userFacingType

GetIndirectType(f) ==
    IF f.typ.indirectType = ""
    THEN IF f.typ.isSlice \/ f.typ.isMap THEN GetType(f) ELSE "*" \o GetType(f)
    ELSE f.typ.indirectType

----------------------------------------------------------------------------
(* The schema the templates are rendered for.                              *)
(*   Attrs map[string]string      declared by name, schema.Type(...)       *)
(*   Internal string, extension   by reflection, Extension(true)           *)
(*   Level Level (has Get)        declared by name, ImplementsGet(true)    *)
(*   List  *Names (has Get)       by reflection, ImplementsGet(true)       *)
(*   Name  string, required       by reflection                            *)
(*   Tags  []string, required     by reflection                            *)
(* The field list is in ascending field-name order, as the synthesized     *)
(* program leaves it.                                                       *)

Fields ==
    << NewField("Attrs", TypeByName("map[string]string", FALSE, TRUE)),
       Extension(NewField("Internal",
                   TypeInfoFrom(ReflectType("string", "String", "", {}))), TRUE),
       NewField("Level", ImplementsGet(TypeByName("Level", FALSE, FALSE), TRUE)),
       NewField("List", ImplementsGet(
                   TypeInfoFrom(ReflectType("*Names", "Ptr", "Names",
                       {[name |-> "Get", in |-> <<"*Names">>, out |-> <<"[]string">>]})),
                   TRUE)),
       Required(NewField("Name", TypeInfoFrom(ReflectType("string", "String", "", {}))), TRUE),
       Required(NewField("Tags", TypeInfoFrom(ReflectType("[]string", "Slice", "string", {}))), TRUE) >>

FieldIdx == 1 .. Len(Fields)

\* the generated key constant <Name>Key: the field's JSON name
Key(f) == GetJSON(f)

DeclaredKeys == { Key(Fields[i]) : i \in FieldIdx }
StorageNames == { GetUnexportedName(Fields[i]) : i \in FieldIdx }

\* the case of a generated `switch key` that key selects, 0 for default
CaseOf(key) ==
    IF key \in DeclaredKeys
    THEN CHOOSE i \in FieldIdx : Key(Fields[i]) = key
    ELSE 0

\* Go's < on the strings in use as keys: their ascending order
KeyOrder == << "aaa", "attrs", "extra", "internal", "level", "list", "name", "tags" >>
KeyRank(k) == CHOOSE i \in 1 .. Len(KeyOrder) : KeyOrder[i] = k
StrLess(a, b) == KeyRank(a) < KeyRank(b)

AllKeys == { KeyOrder[i] : i \in 1 .. Len(KeyOrder) }
ExtraKeys == AllKeys \ DeclaredKeys

----------------------------------------------------------------------------
(* The generated object: template object.go *)

\* the extra map: a nil map reads as empty
NilMap == [isNil |-> TRUE, m |-> <<>>]
MakeMap(m) == [isNil |-> FALSE, m |-> m]
MapKeys(e) == DOMAIN e.m
MapPut(e, k, v) ==
    MakeMap([x \in (DOMAIN e.m) \cup {k} |-> IF x = k THEN v ELSE e.m[x]])
\* delete(m, k): a no-op on a nil map and on a missing key
MapDelete(e, k) ==
    IF e.isNil THEN e
    ELSE MakeMap([x \in (DOMAIN e.m) \ {k} |-> e.m[x]])

\* the zero value of the generated struct
ZeroFields == [n \in StorageNames |-> Nil]

Stored(flds, f) == flds[GetUnexportedName(f)]

\* the value expression of Get and of makePairs:
\*   if ne GetType GetIndirectType: *val; else if GetImplementsGet: val.Get(); else val
GetValueExpr(f, val) ==
    IF GetType(f) # GetIndirectType(f) THEN Deref(val)
    ELSE IF GetImplementsGet(f) THEN Produce(val)
    ELSE val

\* the value expression of the typed accessor:
\*   if GetImplementsGet: val.Get(); else if ne GetType GetIndirectType: *val; else val
AccessorValueExpr(f, val) ==
    IF GetImplementsGet(f) THEN Produce(val)
    ELSE IF GetType(f) # GetIndirectType(f) THEN Deref(val)
    ELSE val

Result(err, val) == [err |-> err, val |-> val]

\* Get without the `val != nil` test of a declared field
Get_NoNilTest(flds, ext, key) ==
    LET i == CaseOf(key) IN
    IF i # 0
    THEN Result("", Stored(flds, Fields[i]))
    ELSE IF ~ext.isNil /\ key \in MapKeys(ext)
         THEN Result("", ext.m[key])
         ELSE Result("no such key", Nil)

\* func (v *Object) Get(key string, dst interface{}) error, dst a *interface{}
Get(flds, ext, key) ==
    LET i == CaseOf(key) IN
    IF i # 0
    THEN IF Stored(flds, Fields[i]) # Nil
         THEN Result("", GetValueExpr(Fields[i], Stored(flds, Fields[i])))
         ELSE Result("no such key", Nil)
    ELSE IF ~ext.isNil /\ key \in MapKeys(ext)
         THEN Result("", ext.m[key])
         ELSE Result("no such key", Nil)

\* Has<Field> testing a list or map field the way makePairs does, by its length
Has_ByLength(flds, f) ==
    IF IsMap(f) \/ IsSlice(f) THEN Len(Stored(flds, f).p) > 0
    ELSE Stored(flds, f) # Nil

\* func (v *Object) Has<Field>() bool
Has(flds, f) == Stored(flds, f) # Nil

\* {{ $field.GetZeroVal }}: what the typed accessor returns for an unset field
GetZeroVal(f) ==
    CASE GetType(f) = "string" -> GoVal("string", <<"">>)
      [] OTHER                 -> Nil

\* func (v *Object) <Field>() <UserFacingType>
Accessor(flds, f) ==
    IF Stored(flds, f) # Nil
    THEN AccessorValueExpr(f, Stored(flds, f))
    ELSE GetZeroVal(f)

\* Remove resetting every declared field, as UnmarshalJSON does first
Remove_ResetsAll(flds, ext, key) ==
    LET i == CaseOf(key) IN
    IF i # 0
    THEN [err |-> "", fields |-> [n \in DOMAIN flds |-> Nil], extra |-> ext]
    ELSE [err |-> "", fields |-> flds, extra |-> MapDelete(ext, key)]

\* func (v *Object) Remove(key string) error
Remove(flds, ext, key) ==
    LET i == CaseOf(key) IN
    IF i # 0
    THEN [err |-> "", fields |-> [flds EXCEPT ![GetUnexportedName(Fields[i])] = Nil],
          extra |-> ext]
    ELSE [err |-> "", fields |-> flds, extra |-> MapDelete(ext, key)]

Pair(name, value) == [Name |-> name, Value |-> value]

\* sort.Slice(pairs, func(i, j) bool { return pairs[i].Name < pairs[j].Name })
RECURSIVE InsertPair(_, _)
InsertPair(sorted, p) ==
    IF sorted = <<>> THEN <<p>>
    ELSE IF StrLess(p.Name, Head(sorted).Name) THEN <<p>> \o sorted
    ELSE <<Head(sorted)>> \o InsertPair(Tail(sorted), p)

RECURSIVE SortPairs(_)
SortPairs(pairs) ==
    IF pairs = <<>> THEN <<>>
    ELSE InsertPair(SortPairs(Tail(pairs)), Head(pairs))

\* the guard of makePairs: len(val) > 0 for a map or slice field, val != nil otherwise
PairGuard(f, val) ==
    IF IsMap(f) \/ IsSlice(f) THEN Len(val.p) > 0
    ELSE val # Nil

RECURSIVE DeclaredPairs(_, _)
DeclaredPairs(flds, i) ==
    IF i > Len(Fields) THEN <<>>
    ELSE (IF PairGuard(Fields[i], Stored(flds, Fields[i]))
          THEN << Pair(Key(Fields[i]), GetValueExpr(Fields[i], Stored(flds, Fields[i]))) >>
          ELSE <<>>)
         \o DeclaredPairs(flds, i + 1)

\* for key, val := range v.extra, in the order `iter` the runtime picks
ExtraPairs(ext, iter) == [n \in 1 .. Len(iter) |-> Pair(iter[n], ext.m[iter[n]])]

\* the orders in which a range over the map may yield its keys
IterOrders(ext) ==
    { s \in [1 .. Cardinality(MapKeys(ext)) -> MapKeys(ext)] :
        \A a, b \in DOMAIN s : a # b => s[a] # s[b] }

\* makePairs without its sort.Slice
makePairs_Unsorted(flds, ext, iter) ==
    DeclaredPairs(flds, 1) \o ExtraPairs(ext, iter)

\* func (v *Object) makePairs() []*pair
makePairs(flds, ext, iter) ==
    SortPairs(DeclaredPairs(flds, 1) \o ExtraPairs(ext, iter))

\* func (v *Object) MarshalJSON() ([]byte, error): the bytes are '{', then per
\* pair the encoded name, ':', the encoded value, ',' between pairs, then '}';
\* they are modelled by the sequence of (name, encoded value) they spell
MarshalJSON(flds, ext, iter) ==
    LET pairs == makePairs(flds, ext, iter) IN
    [n \in 1 .. Len(pairs) |-> [k |-> pairs[n].Name, v |-> EncodeJSON(pairs[n].Value)]]

\* The tokens of an input: a delimiter, a string, or one whole value (what
\* Decode consumes after a key).
Delim(c) == [t |-> "delim", s |-> c, v |-> JSONVal("null", <<>>)]
StrTok(s) == [t |-> "string", s |-> s, v |-> JSONVal("string", <<s>>)]
ValTok(jv) == [t |-> "value", s |-> "", v |-> jv]
\* bytes at which the decoder reports a syntax error
BadTok == [t |-> "bad", s |-> "", v |-> JSONVal("null", <<>>)]

\* what json.NewDecoder(bytes.NewReader(data)) reads from the bytes of an object
RECURSIVE PairTokens(_)
PairTokens(doc) ==
    IF doc = <<>> THEN <<>>
    ELSE << StrTok(Head(doc).k), ValTok(Head(doc).v) >> \o PairTokens(Tail(doc))

Tokens(doc) == << Delim("{") >> \o PairTokens(doc) \o << Delim("}") >>

Outcome(err, flds, ext) == [err |-> err, fields |-> flds, extra |-> ext]

PanicNilMap == "panic: assignment to entry in nil map"

\* the LOOP of UnmarshalJSON from token n on
RECURSIVE UnmarshalLoop(_, _, _, _)
UnmarshalLoop(toks, n, flds, ext) ==
    IF n > Len(toks)
    THEN Outcome("error reading JSON token", flds, ext)
    ELSE LET tok == toks[n] IN
         CASE tok.t = "bad" -> Outcome("error reading JSON token", flds, ext)
           [] tok.t = "delim" ->
                IF tok.s = "}" THEN Outcome("", flds, ext)
                ELSE IF tok.s # "{" THEN Outcome("expected '{'", flds, ext)
                ELSE UnmarshalLoop(toks, n + 1, flds, ext)
           [] tok.t = "string" ->
                LET i == CaseOf(tok.s) IN
                IF n + 1 > Len(toks) \/ toks[n + 1].t # "value"
                THEN Outcome("failed to decode value", flds, ext)
                ELSE IF i # 0
                THEN LET f == Fields[i]
                         d == DecodeInto(GetType(f), toks[n + 1].v)
                     IN  IF ~d.ok
                         THEN Outcome("failed to decode value", flds, ext)
                         ELSE UnmarshalLoop(toks, n + 2,
                                [flds EXCEPT ![GetUnexportedName(f)] =
                                    IF GetType(f) = GetIndirectType(f)
                                    THEN d.v ELSE AddrOf(d.v)],
                                ext)
                ELSE LET d == DecodeInto("interface{}", toks[n + 1].v) IN
                     IF ~d.ok
                     THEN Outcome("failed to decode value", flds, ext)
                     ELSE IF ext.isNil
                     THEN Outcome(PanicNilMap, flds, ext)
                     ELSE UnmarshalLoop(toks, n + 2, flds, MapPut(ext, tok.s, d.v))
           [] OTHER -> UnmarshalLoop(toks, n + 1, flds, ext)

\* func (v *Object) UnmarshalJSON(data []byte) error
\* v.<field> = nil, for every declared field
ResetFields(flds) == [n \in DOMAIN flds |-> Nil]

UnmarshalJSON_NoReset(flds, ext, toks) == UnmarshalLoop(toks, 1, flds, ext)

UnmarshalJSON(flds, ext, toks) == UnmarshalLoop(toks, 1, ResetFields(flds), ext)

----------------------------------------------------------------------------
(* The object's Set, which the builder calls and object.go does not define: *)
(* modelled from the specification.                                         *)

\* the storage a declared field takes for a value of its apparent type
Coerce(f, value) ==
    CASE GetType(f) = "*Names" /\ value.k = "[]string" ->
            DecodeOK(GoVal("*Names", value.p))
      [] GetType(f) # "*Names" /\ value.k = GetType(f) ->
            DecodeOK(IF GetType(f) # GetIndirectType(f) THEN AddrOf(value) ELSE value)
      [] OTHER -> DecodeErr

Set(flds, ext, key, value) ==
    LET i == CaseOf(key) IN
    IF i # 0
    THEN LET c == Coerce(Fields[i], value) IN
         IF c.ok
         THEN Outcome("", [flds EXCEPT ![GetUnexportedName(Fields[i])] = c.v], ext)
         ELSE Outcome("type mismatch", flds, ext)
    ELSE Outcome("", flds, MapPut(ext, key, value))

----------------------------------------------------------------------------------------------------------------------------------------
(* Calls on one object *)

\* how many key/value pairs an input to UnmarshalJSON holds at most
MaxPairs == 2

\* the key/value pairs inputs of up to MaxPairs pairs are made of
InputPairs ==
    { [k |-> "name",  v |-> JSONVal("string", <<"a">>)],
      [k |-> "tags",  v |-> JSONVal("array", <<>>)],
      [k |-> "extra", v |-> JSONVal("number", <<"42">>)] }

\* further one-pair inputs
MorePairs ==
    { [k |-> "name",  v |-> JSONVal("string", <<"">>)],
      [k |-> "name",  v |-> JSONVal("number", <<"42">>)],
      [k |-> "name",  v |-> JSONVal("null", <<>>)],
      [k |-> "tags",  v |-> JSONVal("array", <<"a">>)],
      [k |-> "tags",  v |-> JSONVal("null", <<>>)],
      [k |-> "attrs", v |-> JSONVal("object", <<>>)],
      [k |-> "list",  v |-> JSONVal("array", <<>>)],
      [k |-> "level", v |-> JSONVal("number", <<"7">>)] }

Inputs ==
    UNION { [1 .. n -> InputPairs] : n \in 0 .. MaxPairs }
      \cup { <<p>> : p \in MorePairs }

\* the (key, value) arguments of Set
SetArgs ==
    { [k |-> "name",  v |-> GoVal("string", <<"a">>)],
      [k |-> "name",  v |-> GoVal("string", <<"">>)],
      [k |-> "name",  v |-> GoVal("int", <<"123">>)],
      [k |-> "tags",  v |-> GoVal("[]string", <<>>)],
      [k |-> "tags",  v |-> GoVal("[]string", <<"a">>)],
      [k |-> "attrs", v |-> GoVal("map[string]string", <<>>)],
      [k |-> "list",  v |-> GoVal("[]string", <<>>)],
      [k |-> "level", v |-> GoVal("Level", <<"7">>)],
      [k |-> "aaa",   v |-> GoVal("int", <<"42">>)] }

\* how many goroutines call the object's methods at the same time
NumCallers == 2
Callers == 1 .. NumCallers

\* no call made yet
NoCall == [fn |-> ""]

\* a zero-value object, a zero-value builder, no caller in a method
InitObjects ==
    /\ fields = ZeroFields
    /\ extra = NilMap
    /\ res = [op |-> "new"]
    /\ heap = <<>>
    /\ bObject = 0
    /\ bErr = ""
    /\ bOnce = FALSE
    /\ built = <<>>
    /\ bres = [op |-> "new"]
    /\ mu = [readers |-> {}, writer |-> 0]
    /\ calls = [p \in Callers |-> [method |-> "", arg |-> "", pc |-> "idle"]]

Init ==
    /\ InitObjects
    /\ input = NoCall
    /\ output = NoCall

\* a consumer starts over with a zero-value object
DoNew ==
    /\ res.op # "new"
    /\ fields' = ZeroFields
    /\ extra' = NilMap
    /\ res' = [op |-> "new"]
    /\ UNCHANGED nonObjVars

DoGet ==
    \E key \in AllKeys :
        /\ res' = [op |-> "Get", key |-> key, ret |-> Get(fields, extra, key)]
        /\ UNCHANGED <<fields, extra>>
        /\ UNCHANGED nonObjVars

DoHas ==
    \E i \in FieldIdx :
        /\ res' = [op |-> "Has", key |-> Key(Fields[i]), ret |-> Has(fields, Fields[i])]
        /\ UNCHANGED <<fields, extra>>
        /\ UNCHANGED nonObjVars

DoAccessor ==
    \E i \in FieldIdx :
        /\ res' = [op |-> "Accessor", key |-> Key(Fields[i]),
                   ret |-> Accessor(fields, Fields[i])]
        /\ UNCHANGED <<fields, extra>>
        /\ UNCHANGED nonObjVars

DoMarshalJSON ==
    \E iter \in IterOrders(extra) :
        /\ res' = [op |-> "MarshalJSON", bytes |-> MarshalJSON(fields, extra, iter)]
        /\ UNCHANGED <<fields, extra>>
        /\ UNCHANGED nonObjVars

DoRemove ==
    \E key \in AllKeys :
        LET r == Remove(fields, extra, key) IN
        /\ fields' = r.fields
        /\ extra' = r.extra
        /\ res' = [op |-> "Remove", key |-> key, err |-> r.err]
        /\ UNCHANGED nonObjVars

DoUnmarshalJSON ==
    \E doc \in Inputs :
        LET r == UnmarshalJSON(fields, extra, Tokens(doc)) IN
        /\ fields' = r.fields
        /\ extra' = r.extra
        /\ res' = [op |-> "UnmarshalJSON", doc |-> doc, err |-> r.err]
        /\ UNCHANGED nonObjVars

DoSet ==
    \E a \in SetArgs :
        LET r == Set(fields, extra, a.k, a.v) IN
        /\ fields' = r.fields
        /\ extra' = r.extra
        /\ res' = [op |-> "Set", key |-> a.k, val |-> a.v, err |-> r.err]
        /\ UNCHANGED nonObjVars

\* y.UnmarshalJSON(x.MarshalJSON()) for a new object y; x is left as it is
DoRoundTrip ==
    \E iter \in IterOrders(extra) :
        LET data == MarshalJSON(fields, extra, iter)
            y    == UnmarshalJSON(ZeroFields, NilMap, Tokens(data))
        IN
        /\ res' = [op |-> "RoundTrip", err |-> y.err,
                   y |-> [fields |-> y.fields, extra |-> y.extra]]
        /\ UNCHANGED <<fields, extra>>
        /\ UNCHANGED nonObjVars

Next ==
    \/ DoNew
    \/ DoGet
    \/ DoHas
    \/ DoAccessor
    \/ DoMarshalJSON
    \/ DoRemove
    \/ DoUnmarshalJSON
    \/ DoSet
    \/ DoRoundTrip

Spec == Init /\ [][Next]_vars

----------------------------------------------------------------------------
(* What a consumer can observe of an object *)

\* the keys present: declared fields with non-absent storage, and extra keys
PresentKeys(flds, ext) ==
    { Key(Fields[i]) : i \in { j \in FieldIdx : Has(flds, Fields[j]) } } \cup MapKeys(ext)

BytesKeys(b) == { b[n].k : n \in 1 .. Len(b) }

IsProducer(key) == CaseOf(key) # 0 /\ GetImplementsGet(Fields[CaseOf(key)])

\* the value an input gives key last, decodable into the field's type or not
LastIndex(doc, key) == CHOOSE n \in DOMAIN doc :
    doc[n].k = key /\ \A m \in DOMAIN doc : doc[m].k = key => m <= n
DocKeys(doc) == { doc[n].k : n \in DOMAIN doc }
WellTyped(doc) ==
    \A n \in DOMAIN doc :
        CaseOf(doc[n].k) # 0 => DecodeInto(GetType(Fields[CaseOf(doc[n].k)]), doc[n].v).ok

----------------------------------------------------------------------------
(* Claims *)

\* C1: round trip.  For every populated object x, UnmarshalJSON on a new
\* object with the bytes of x.MarshalJSON() succeeds and yields an object with
\* the same present keys as x and the same Get result for every key.
C1_RoundTrip ==
    res.op = "RoundTrip" =>
        /\ res.err = ""
        /\ PresentKeys(res.y.fields, res.y.extra) = PresentKeys(fields, extra)
        /\ \A k \in AllKeys :
              Get(res.y.fields, res.y.extra, k) = Get(fields, extra, k)

\* C2: the keys of MarshalJSON's output are exactly the wire keys of the
\* declared fields whose storage is non-absent (Has<Field> true) together with
\* the keys of extra storage.
C2_MarshalKeys ==
    res.op = "MarshalJSON" => BytesKeys(res.bytes) = PresentKeys(fields, extra)

\* C3: MarshalJSON is deterministic: on the unchanged object every call
\* returns the same bytes, whatever order the range over the extra map takes,
\* and the keys of the output are in strictly ascending order.
C3_Deterministic ==
    res.op = "MarshalJSON" =>
        /\ \A iter \in IterOrders(extra) : MarshalJSON(fields, extra, iter) = res.bytes
        /\ \A n \in 1 .. Len(res.bytes) - 1 : StrLess(res.bytes[n].k, res.bytes[n + 1].k)

C3_Witness ==
    /\ res.op = "MarshalJSON"
    /\ Cardinality(MapKeys(extra)) >= 2
    /\ Len(res.bytes) >= 4

\* C4: UnmarshalJSON on a newly created (zero-value) object with an input
\* that holds a key that is no declared wire key (and decodable values for the
\* declared ones) completes without error, and Get on that key then succeeds
\* with the decoded value: {"name":"a","extra":42} gives extra = 42, name = "a".
C4_UnknownKeyOnNewObject ==
    [][ ( /\ res.op = "new"
          /\ res'.op = "UnmarshalJSON"
          /\ WellTyped(res'.doc)
          /\ DocKeys(res'.doc) \ DeclaredKeys # {} )
        => ( /\ res'.err = ""
             /\ \A k \in DocKeys(res'.doc) \ DeclaredKeys :
                   Get(fields', extra', k) =
                       Result("", DecodeInto("interface{}",
                                     res'.doc[LastIndex(res'.doc, k)].v).v) ) ]_vars

C6_ProducedEverywhere ==
    /\ (res.op \in {"Get", "Accessor"} /\ IsProducer(res.key)
            /\ Has(fields, Fields[CaseOf(res.key)]))
         => (IF res.op = "Get" THEN res.ret.val ELSE res.ret)
                = Produce(Stored(fields, Fields[CaseOf(res.key)]))
    /\ res.op = "MarshalJSON" =>
         \A n \in 1 .. Len(res.bytes) :
            IsProducer(res.bytes[n].k) =>
                res.bytes[n].v =
                    EncodeJSON(Produce(Stored(fields, Fields[CaseOf(res.bytes[n].k)])))

C8_Remove ==
    [][ res'.op = "Remove" =>
        /\ res'.err = ""
        /\ res'.key \notin PresentKeys(fields', extra')
        /\ \A i \in FieldIdx :
              Key(Fields[i]) # res'.key => Stored(fields', Fields[i]) = Stored(fields, Fields[i])
        /\ MapKeys(extra') = MapKeys(extra) \ {res'.key}
        /\ \A k \in MapKeys(extra') : extra'.m[k] = extra.m[k]
        /\ res'.key \notin PresentKeys(fields, extra) => (fields' = fields /\ extra' = extra)
        /\ Remove(fields', extra', res'.key) = [err |-> "", fields |-> fields', extra |-> extra']
      ]_vars

C8_Witness ==
    /\ res.op = "Remove"
    /\ res.key = "tags"
    /\ Has(fields, Fields[CaseOf("name")])
    /\ MapKeys(extra) # {}

----------------------------------------------------------------------------
(* The generated builder: template object/builder.                         *)
(* A builder is [heap, obj, err, once]: the objects allocated so far, and   *)
(* the builder's fields b.object (0 for nil), b.err ("" for nil), b.once.   *)

ZeroObject == [fields |-> ZeroFields, extra |-> NilMap]

Builder == [heap |-> heap, obj |-> bObject, err |-> bErr, once |-> bOnce]

\* initialize that clears the error and keeps the object it has
initialize_KeepsObject(b) ==
    IF b.obj = 0
    THEN [b EXCEPT !.err = "", !.heap = Append(@, ZeroObject), !.obj = Len(b.heap) + 1]
    ELSE [b EXCEPT !.err = ""]

\* func (b *Builder) initialize(): b.err = nil; b.object = &Object{}
initialize(b) ==
    [b EXCEPT !.err = "", !.heap = Append(@, ZeroObject), !.obj = Len(b.heap) + 1]

\* b.once.Do(b.initialize)
OnceDo(b) == IF b.once THEN b ELSE [initialize(b) EXCEPT !.once = TRUE]

\* func (b *Builder) SetField(name string, value interface{}) *Builder
SetField(b, name, value) ==
    LET b1 == OnceDo(b) IN
    IF b1.err # "" THEN b1
    ELSE LET r == Set(b1.heap[b1.obj].fields, b1.heap[b1.obj].extra, name, value) IN
         IF r.err # ""
         THEN [b1 EXCEPT !.err = r.err]
         ELSE [b1 EXCEPT !.heap[b1.obj] = [fields |-> r.fields, extra |-> r.extra]]

\* func (b *Builder) <Field>(in <ApparentType>) *Builder
TypedSetter(b, f, in) == SetField(b, Key(f), in)

MissingRequired(flds) ==
    { i \in FieldIdx : GetRequired(Fields[i]) /\ Stored(flds, Fields[i]) = Nil }

RequiredError(f) == "required field '" \o GetName(f) \o "' not initialized"

Min(S) == CHOOSE x \in S : \A y \in S : x <= y

\* Build that tests the required fields before the recorded error
Build_RequiredFirst(b) ==
    LET b1 == OnceDo(b)
        missing == MissingRequired(b1.heap[b1.obj].fields)
    IN  IF missing # {}
        THEN [b |-> b1, obj |-> 0, err |-> RequiredError(Fields[Min(missing)])]
        ELSE IF b1.err # ""
        THEN [b |-> b1, obj |-> 0, err |-> b1.err]
        ELSE [b |-> OnceDo([b1 EXCEPT !.once = FALSE]), obj |-> b1.obj, err |-> ""]

\* func (b *Builder) Build() (*Object, error)
Build(b) ==
    LET b1 == OnceDo(b)
        missing == MissingRequired(b1.heap[b1.obj].fields)
    IN  IF b1.err # ""
        THEN [b |-> b1, obj |-> 0, err |-> b1.err]
        ELSE IF missing # {}
        THEN [b |-> b1, obj |-> 0, err |-> RequiredError(Fields[Min(missing)])]
        ELSE [b |-> OnceDo([b1 EXCEPT !.once = FALSE]), obj |-> b1.obj, err |-> ""]

\* func (b *Builder) MustBuild() *Object: Build, its error turned into a panic
MustBuild(b) ==
    LET r == Build(b) IN
    [r EXCEPT !.err = IF r.err = "" THEN "" ELSE "panic: " \o r.err]

----------------------------------------------------------------------------
(* Calls on one builder *)

\* how many objects the builder allocates at most
MaxObjects == 3

\* the (name, value) arguments of SetField
BuilderArgs ==
    { [k |-> "name", v |-> GoVal("string", <<"a">>)],
      [k |-> "name", v |-> GoVal("int", <<"123">>)],
      [k |-> "tags", v |-> GoVal("[]string", <<>>)],
      [k |-> "aaa",  v |-> GoVal("int", <<"42">>)] }

\* the arguments the typed setters take: a value of the field's own type
TypedArgs ==
    { a \in BuilderArgs : /\ CaseOf(a.k) # 0
                          /\ ~GetExtension(Fields[CaseOf(a.k)])
                          /\ Coerce(Fields[CaseOf(a.k)], a.v).ok }

SetBuilder(b) ==
    /\ heap' = b.heap
    /\ bObject' = b.obj
    /\ bErr' = b.err
    /\ bOnce' = b.once

DoSetField ==
    \E a \in BuilderArgs :
        LET b == SetField(Builder, a.k, a.v) IN
        /\ Len(b.heap) <= MaxObjects
        /\ SetBuilder(b)
        /\ bres' = [op |-> "SetField", key |-> a.k, err |-> b.err]
        /\ UNCHANGED built
        /\ UNCHANGED nonBldVars

DoTypedSetter ==
    \E a \in TypedArgs :
        LET b == TypedSetter(Builder, Fields[CaseOf(a.k)], a.v) IN
        /\ Len(b.heap) <= MaxObjects
        /\ SetBuilder(b)
        /\ bres' = [op |-> "TypedSetter", key |-> a.k, err |-> b.err]
        /\ UNCHANGED built
        /\ UNCHANGED nonBldVars

Returned(r) ==
    IF r.err = "" THEN Append(built, [id |-> r.obj, snap |-> r.b.heap[r.obj]])
    ELSE built

DoBuild ==
    LET r == Build(Builder) IN
    /\ Len(r.b.heap) <= MaxObjects
    /\ SetBuilder(r.b)
    /\ bres' = [op |-> "Build", err |-> r.err, obj |-> r.obj]
    /\ built' = Returned(r)
    /\ UNCHANGED nonBldVars

DoMustBuild ==
    LET r == MustBuild(Builder) IN
    /\ Len(r.b.heap) <= MaxObjects
    /\ SetBuilder(r.b)
    /\ bres' = [op |-> "MustBuild", err |-> r.err, obj |-> r.obj]
    /\ built' = Returned(r)
    /\ UNCHANGED nonBldVars

NextBuilder ==
    \/ DoSetField
    \/ DoTypedSetter
    \/ DoBuild
    \/ DoMustBuild

SpecBuilder == Init /\ [][NextBuilder]_vars

\* the object the builder holds when a call has passed b.once.Do(b.initialize)
Held == IF bOnce THEN heap[bObject] ELSE ZeroObject

C10_BuildResets ==
    /\ [](\A n \in DOMAIN built :
             /\ heap[built[n].id] = built[n].snap
             /\ built[n].id # bObject)
    /\ [][ (bres'.op \in {"Build", "MustBuild"} /\ bres'.err = "") =>
             /\ bres'.obj = bObject
             /\ heap'[bres'.obj] = heap[bObject]
             /\ heap'[bObject'] = ZeroObject
             /\ bErr' = "" ]_vars

C10_Witness ==
    /\ Len(built) >= 1
    /\ bres.op \in {"SetField", "TypedSetter"}
    /\ bres.err = ""
    /\ heap[bObject] # ZeroObject
    /\ heap[bObject] # built[1].snap

----------------------------------------------------------------------------
(* Extension fields: calls on one object whose input names the extension   *)
(* field's key.                                                             *)

ExtensionPairs ==
    { [k |-> "internal", v |-> JSONVal("string", <<"x">>)],
      [k |-> "name",     v |-> JSONVal("string", <<"a">>)] }

ExtensionInputs == UNION { [1 .. n -> ExtensionPairs] : n \in 1 .. MaxPairs }

DoUnmarshalExtension ==
    \E doc \in ExtensionInputs :
        LET r == UnmarshalJSON(fields, extra, Tokens(doc)) IN
        /\ fields' = r.fields
        /\ extra' = r.extra
        /\ res' = [op |-> "UnmarshalJSON", doc |-> doc, err |-> r.err]
        /\ UNCHANGED nonObjVars

NextExtension ==
    \/ DoNew
    \/ DoUnmarshalExtension
    \/ DoGet
    \/ DoHas
    \/ DoAccessor
    \/ DoMarshalJSON
    \/ DoRemove

SpecExtension == Init /\ [][NextExtension]_vars

ExtensionIdx == { i \in FieldIdx : GetExtension(Fields[i]) }

\* C11: a field declared as an extension is invisible to the generic surface:
\* UnmarshalJSON never fills it from input, MarshalJSON never writes its key,
\* Get on its key finds nothing, and no Has<Field> or typed accessor exists
\* for it, whatever its storage holds.
C11_ExtensionInvisible ==
    \A i \in ExtensionIdx :
        /\ res.op = "UnmarshalJSON" => Stored(fields, Fields[i]) = Nil
        /\ res.op = "MarshalJSON" => Key(Fields[i]) \notin BytesKeys(res.bytes)
        /\ (res.op = "Get" /\ res.key = Key(Fields[i])) => res.ret.err = "no such key"
        /\ res.op \in {"Has", "Accessor"} => res.key # Key(Fields[i])

----------------------------------------------------------------------------
(* Concurrent callers of one object.  A call takes the lock its method      *)
(* takes (if any), is then inside the method's body, where it reads or      *)
(* writes the storage, and returns, running its deferred unlock.            *)

Methods == {"Get", "Has", "Accessor", "MarshalJSON", "Remove", "UnmarshalJSON"}

\* the lock a method takes: v.mu.RLock(), v.mu.Lock(), or none
LockOf(method) ==
    CASE method = "Get"           -> "none"
      [] method = "Has"           -> "RLock"
      [] method = "Accessor"      -> "RLock"
      [] method = "MarshalJSON"   -> "none"
      [] method = "Remove"        -> "Lock"
      [] method = "UnmarshalJSON" -> "Lock"

\* whether a method's body assigns to the storage
Writes(method) == method \in {"Remove", "UnmarshalJSON"}

\* the argument of a call: a key, or an input
ArgsOf(method) ==
    CASE method \in {"Get", "Has", "Accessor", "Remove"} -> {"name"}
      [] method = "MarshalJSON" -> {""}
      [] method = "UnmarshalJSON" -> {"name", "tags"}

DocOf(arg) ==
    IF arg = "name" THEN << [k |-> "name", v |-> JSONVal("string", <<"a">>)] >>
    ELSE << [k |-> "tags", v |-> JSONVal("array", <<>>)] >>

InBody(p) == calls[p].pc \in {"body", "loop"}

\* a goroutine calls a method: up to the lock, or into the body if none is taken
CallMethod(p) ==
    /\ calls[p].pc = "idle"
    /\ \E method \in Methods : \E arg \in ArgsOf(method) :
          calls' = [calls EXCEPT ![p] =
                      [method |-> method, arg |-> arg,
                       pc |-> IF LockOf(method) = "none" THEN "body" ELSE "lock"]]
    /\ UNCHANGED <<mu, objVars, bldVars, funVars>>

\* sync.RWMutex: RLock waits for the writer, Lock for the writer and the readers
AcquireLock(p) ==
    /\ calls[p].pc = "lock"
    /\ IF LockOf(calls[p].method) = "RLock"
       THEN /\ mu.writer = 0
            /\ mu' = [mu EXCEPT !.readers = @ \cup {p}]
       ELSE /\ mu.writer = 0
            /\ mu.readers = {}
            /\ mu' = [mu EXCEPT !.writer = p]
    /\ calls' = [calls EXCEPT ![p].pc = "body"]
    /\ UNCHANGED <<objVars, bldVars, funVars>>

\* UnmarshalJSON first resets every field, then runs its token loop
ResetStorage(p) ==
    /\ calls[p].pc = "body"
    /\ calls[p].method = "UnmarshalJSON"
    /\ fields' = ResetFields(fields)
    /\ calls' = [calls EXCEPT ![p].pc = "loop"]
    /\ UNCHANGED <<extra, res, mu, bldVars, funVars>>

Unlock(p) == [readers |-> mu.readers \ {p}, writer |-> IF mu.writer = p THEN 0 ELSE mu.writer]

\* the body runs to its return, and the deferred unlock with it
ReturnFrom(p) ==
    LET c == calls[p]
        f == Fields[CaseOf("name")]
    IN
    /\ \/ c.pc = "body" /\ c.method # "UnmarshalJSON"
       \/ c.pc = "loop"
    /\ CASE c.method = "Get" ->
              /\ res' = [op |-> "Get", key |-> c.arg, ret |-> Get(fields, extra, c.arg)]
              /\ UNCHANGED <<fields, extra>>
         [] c.method = "Has" ->
              /\ res' = [op |-> "Has", key |-> c.arg, ret |-> Has(fields, f)]
              /\ UNCHANGED <<fields, extra>>
         [] c.method = "Accessor" ->
              /\ res' = [op |-> "Accessor", key |-> c.arg, ret |-> Accessor(fields, f)]
              /\ UNCHANGED <<fields, extra>>
         [] c.method = "MarshalJSON" ->
              /\ res' = [op |-> "MarshalJSON", bytes |-> MarshalJSON(fields, extra, <<>>)]
              /\ UNCHANGED <<fields, extra>>
         [] c.method = "Remove" ->
              LET r == Remove(fields, extra, c.arg) IN
              /\ fields' = r.fields
              /\ extra' = r.extra
              /\ res' = [op |-> "Remove", key |-> c.arg, err |-> r.err]
         [] c.method = "UnmarshalJSON" ->
              LET r == UnmarshalLoop(Tokens(DocOf(c.arg)), 1, fields, extra) IN
              /\ fields' = r.fields
              /\ extra' = r.extra
              /\ res' = [op |-> "UnmarshalJSON", doc |-> DocOf(c.arg), err |-> r.err]
    /\ mu' = Unlock(p)
    /\ calls' = [calls EXCEPT ![p] = [method |-> "", arg |-> "", pc |-> "idle"]]
    /\ UNCHANGED <<bldVars, funVars>>

NextLocks ==
    \E p \in Callers :
        \/ CallMethod(p)
        \/ AcquireLock(p)
        \/ ResetStorage(p)
        \/ ReturnFrom(p)

SpecLocks == Init /\ [][NextLocks]_vars

\* C12: Get, Has<Field>, the typed accessors and MarshalJSON hold the read
\* lock for as long as they read the storage, Remove and UnmarshalJSON hold the
\* write lock for as long as they write it, and so no caller is reading or
\* writing the storage while another is writing it.
C12_LockDiscipline ==
    /\ \A p \in Callers :
          InBody(p) =>
              IF Writes(calls[p].method) THEN mu.writer = p ELSE p \in mu.readers
    /\ \A p, q \in Callers :
          (p # q /\ InBody(p) /\ InBody(q))
              => ~(Writes(calls[p].method) \/ Writes(calls[q].method))

----------------------------------------------------------------------------
(* UnmarshalJSON on arbitrary bytes: what the decoder reads from data that  *)
(* is one JSON object, is cut short, holds a syntax error, is another       *)
(* top-level value, or goes on after the closing brace.                     *)

RawPairs ==
    { [k |-> "name", v |-> JSONVal("string", <<"a">>)],
      [k |-> "tags", v |-> JSONVal("array", <<>>)] }

RawDocs == UNION { [1 .. n -> RawPairs] : n \in 0 .. MaxPairs }

WellFormed == { Tokens(doc) : doc \in RawDocs }

\* data cut short after n tokens
Truncated == UNION { { SubSeq(t, 1, n) : n \in 0 .. Len(t) - 1 } : t \in WellFormed }

\* data with a syntax error where token n would be
Malformed ==
    UNION { { SubSeq(t, 1, n - 1) \o << BadTok >> : n \in 1 .. Len(t) } : t \in WellFormed }

\* one top-level value that is no object: number, null, string, array; and two
NotAnObject ==
    { << ValTok(JSONVal("number", <<"42">>)) >>,
      << ValTok(JSONVal("null", <<>>)) >>,
      << StrTok("abc") >>,
      << StrTok("name") >>,
      << StrTok("name"), ValTok(JSONVal("string", <<"a">>)) >>,
      << Delim("["), Delim("]") >> }

\* one object followed by more data
Trailing ==
    { t \o rest : t \in WellFormed,
                  rest \in { << BadTok >>, << ValTok(JSONVal("number", <<"42">>)) >>,
                             Tokens(<<>>) } }

RawInputs == WellFormed \cup Truncated \cup Malformed \cup NotAnObject \cup Trailing

DoUnmarshalData ==
    \E toks \in RawInputs :
        LET r == UnmarshalJSON(fields, extra, toks) IN
        /\ fields' = r.fields
        /\ extra' = r.extra
        /\ res' = [op |-> "UnmarshalData", toks |-> toks, err |-> r.err]
        /\ UNCHANGED nonObjVars

NextData ==
    \/ DoNew
    \/ DoUnmarshalData
    \/ DoHas
    \/ DoGet

SpecData == Init /\ [][NextData]_vars

\* C13: UnmarshalJSON returns an error for every input that is not exactly
\* one well-formed JSON object: cut short or malformed at any position, a
\* top-level value that is no object, or data after the closing brace.
C13_RejectsAllButOneObject ==
    (res.op = "UnmarshalData" /\ res.toks \notin WellFormed) => res.err # ""

----------------------------------------------------------------------------
(* package schema (TypeSpec / FieldSpec): key names.                        *)
(* A schema descriptor is a struct type of the schema author's that embeds  *)
(* schema.Base: [Variables, own], Variables being Base.Variables and own    *)
(* the methods the author declared on the descriptor type: method name ->   *)
(* the string it returns, NoMethod where the author declared none and the   *)
(* method promoted from Base is the descriptor's.                           *)

NoMethod == GoVal("none", <<>>)

\* func (b Base) StringVar(name string) string
StringVar(b, name) ==
    LET v == b.Variables[name] IN
    IF v.k = "string" THEN v.p[1] ELSE ""

\* func (b Base) KeyNamePrefix() string
Base_KeyNamePrefix(b) == StringVar(b, "DefaultKeyNamePrefix")

\* func (b Base) GetKeyName(fieldName string) string
\* b is the embedded Base: b.KeyNamePrefix() is Base's method
Base_GetKeyName(b, fieldName) == Base_KeyNamePrefix(b) \o fieldName \o "Key"

\* object.KeyNamePrefix() on an Interface value: the descriptor's own method
\* if it declares one, else the one promoted from the embedded Base
KeyNamePrefix(object) ==
    IF object.own["KeyNamePrefix"] # NoMethod
    THEN object.own["KeyNamePrefix"].p[1]
    ELSE Base_KeyNamePrefix(object)

\* object.GetKeyName(fieldName) on an Interface value
GetKeyNameOf(object, fieldName) ==
    IF object.own["GetKeyName"] # NoMethod
    THEN object.own["GetKeyName"].p[1]
    ELSE Base_GetKeyName(object, fieldName)

\* func (f *FieldSpec) GetKeyName(object Interface) string
GetKeyName(f, object) == GetKeyNameOf(object, GetName(f))

\* Base.Variables["DefaultKeyNamePrefix"]: not set, the object's name (set by
\* the synthesized program under --with-key-name-prefix), or no string
PrefixVars ==
    { Nil, GoVal("string", <<"Obj">>), GoVal("string", <<"">>), GoVal("bool", <<"true">>) }

\* the KeyNamePrefix method a schema author declares on the descriptor
PrefixMethods == { NoMethod, GoVal("string", <<"My">>), GoVal("string", <<"">>) }

Descriptors ==
    { [Variables |-> [DefaultKeyNamePrefix |-> v],
       own |-> [KeyNamePrefix |-> km, GetKeyName |-> NoMethod]] :
         v \in PrefixVars, km \in PrefixMethods }

InitKeyName ==
    /\ InitObjects
    /\ input \in { [object |-> d, field |-> Fields[i]] : d \in Descriptors, i \in FieldIdx }
    /\ output = NoCall

DoGetKeyName ==
    /\ output' = [fn |-> "GetKeyName", ret |-> GetKeyName(input.field, input.object)]
    /\ UNCHANGED input
    /\ UNCHANGED nonFunVars

DoKeyNamePrefix ==
    /\ output' = [fn |-> "KeyNamePrefix", ret |-> KeyNamePrefix(input.object)]
    /\ UNCHANGED input
    /\ UNCHANGED nonFunVars

NextKeyName ==
    \/ DoGetKeyName
    \/ DoKeyNamePrefix

SpecKeyName == InitKeyName /\ [][NextKeyName]_vars

\* C14: FieldSpec.GetKeyName(descriptor) returns what the descriptor's own
\* KeyNamePrefix() reports (empty by default, the object name under key
\* prefixing, or what a KeyNamePrefix method of the schema author returns),
\* followed by the field name, followed by "Key".
C14_KeyName ==
    output.fn = "GetKeyName" =>
        output.ret = KeyNamePrefix(input.object) \o GetName(input.field) \o "Key"

----------------------------------------------------------------------------
(* package schema: what the constructors find out about a type by          *)
(* reflection.                                                              *)

\* The leading token of a type name and the rest of it, for the names that
\* have one of the prefixes the constructors look for.
NameParts(name) ==
    CASE name = "[]string"       -> << "[]", "string" >>
      [] name = "map[string]int" -> << "map[", "string]int" >>
      [] name = "*main.Foo"      -> << "*", "main.Foo" >>
      [] name = "[]int"          -> << "[]", "int" >>
      [] name = "*string"        -> << "*", "string" >>
      [] OTHER                   -> << "", name >>

\* strings.HasPrefix and strings.TrimPrefix
HasPrefix(name, prefix) == prefix # "" /\ NameParts(name)[1] = prefix

TrimPrefix(name, prefix) == IF HasPrefix(name, prefix) THEN NameParts(name)[2] ELSE name

\* reflect.Type.Kind and Elem of a method's result type, given by name
KindByName(name) == IF HasPrefix(name, "[]") THEN "Slice" ELSE "Other"

ElemByName(name) == TrimPrefix(name, "[]")

\* func Type(v interface{}) *TypeSpec, for a v that is no non-empty string
Type(rv) ==
    LET get == { m \in MethodByName(rv, "GetValue") : Len(m.in) = 1 /\ Len(m.out) = 1 }
        accept == { m \in MethodByName(rv, "AcceptValue") :
                      /\ Len(m.in) = 2
                      /\ m.in[2] = typInterface
                      /\ Len(m.out) = 1
                      /\ m.out[1] = typError }
    IN
    [ name         |-> rv.name,
      apparentType |-> IF get # {} THEN (CHOOSE m \in get : TRUE).out[1] ELSE rv.name,
      rawType      |-> IF rv.kind = "Ptr" THEN rv.elem ELSE rv.name,
      ptrType      |-> IF rv.kind \in {"Ptr", "Slice", "Interface", "Array"}
                       THEN rv.name ELSE "*" \o rv.name,
      getValueMethodName    |-> IF get # {} THEN "GetValue" ELSE "",
      acceptValueMethodName |-> IF accept # {} THEN "AcceptValue" ELSE "",
      element      |-> IF get # {}
                       THEN IF KindByName((CHOOSE m \in get : TRUE).out[1]) = "Slice"
                            THEN ElemByName((CHOOSE m \in get : TRUE).out[1])
                            ELSE "sketch.UnknownType"
                       ELSE IF rv.kind = "Slice" THEN rv.elem ELSE "sketch.UnknownType",
      initArgStyle |-> IF (IF get # {}
                           THEN KindByName((CHOOSE m \in get : TRUE).out[1])
                           ELSE rv.kind) = "Slice"
                       THEN "InitializerArgumentAsSlice"
                       ELSE "InitializerArgumentAsSingleArg",
      supportsLen  |-> rv.kind \in {"Slice", "Map", "Chan"},
      isInterface  |-> rv.kind = "Interface" ]

\* func (ts *TypeSpec) GetApparentType() string
GetApparentType(ts) == IF ts.apparentType = "" THEN ts.name ELSE ts.apparentType

\* the types handed to the constructors
StorageTypes ==
    { [name |-> "*StringList", kind |-> "Ptr", elem |-> "StringList"],
      [name |-> "Level", kind |-> "Int", elem |-> ""],
      [name |-> "Names", kind |-> "Slice", elem |-> "string"] }

NoSig == [args |-> << "-" >>, out |-> <<>>]

\* a producer method as declared: none, func() []string, and near misses
ProducerSigs ==
    { NoSig,
      [args |-> <<>>, out |-> << "[]string" >>],
      [args |-> << "int" >>, out |-> << "[]string" >>],
      [args |-> <<>>, out |-> << "[]string", "error" >>],
      [args |-> <<>>, out |-> <<>>] }

\* an acceptor method as declared: none, func(interface{}) error, and near misses
AcceptorSigs ==
    { NoSig,
      [args |-> << "interface {}" >>, out |-> << "error" >>],
      [args |-> << "string" >>, out |-> << "error" >>],
      [args |-> << "interface {}" >>, out |-> << "bool" >>],
      [args |-> << "interface {}" >>, out |-> <<>>],
      [args |-> <<>>, out |-> << "error" >>] }

\* reflect.TypeOf of a value of type t that declares the two methods under
\* the names given
Reflect(t, producer, acceptor, getName, acceptName) ==
    ReflectType(t.name, t.kind, t.elem,
        { [name |-> getName, in |-> << t.name >> \o producer.args, out |-> producer.out] :
              x \in IF producer = NoSig THEN {} ELSE {1} }
        \cup
        { [name |-> acceptName, in |-> << t.name >> \o acceptor.args, out |-> acceptor.out] :
              x \in IF acceptor = NoSig THEN {} ELSE {1} })

InitReflect ==
    /\ InitObjects
    /\ input \in [type : StorageTypes, producer : ProducerSigs, acceptor : AcceptorSigs]
    /\ output = NoCall

DoType ==
    LET ts == Type(Reflect(input.type, input.producer, input.acceptor,
                           "GetValue", "AcceptValue")) IN
    /\ output' = [fn |-> "Type",
                  producer |-> ts.getValueMethodName # "",
                  acceptor |-> ts.acceptValueMethodName # "",
                  apparent |-> GetApparentType(ts)]
    /\ UNCHANGED input
    /\ UNCHANGED nonFunVars

DoTypeInfoFrom ==
    LET f == NewField("F", TypeInfoFrom(Reflect(input.type, input.producer, input.acceptor,
                                                "Get", "Accept"))) IN
    /\ output' = [fn |-> "TypeInfoFrom",
                  producer |-> GetImplementsGet(f),
                  acceptor |-> GetImplementsAccept(f),
                  apparent |-> GetUserFacingType(f)]
    /\ UNCHANGED input
    /\ UNCHANGED nonFunVars

NextReflect ==
    \/ DoType
    \/ DoTypeInfoFrom

SpecReflect == InitReflect /\ [][NextReflect]_vars

\* C15: a constructor that inspects a type by reflection (Type, TypeInfoFrom)
\* marks producer capability exactly when the type has the producer method
\* taking no arguments and returning one value, and then reports that value's
\* type as the apparent type, the type's own name otherwise; it marks acceptor
\* capability exactly when the type has the acceptor method taking one
\* interface{} and returning one error.
C15_Capabilities ==
    output.fn \in {"Type", "TypeInfoFrom"} =>
        LET produces == input.producer.args = <<>> /\ Len(input.producer.out) = 1
            accepts == input.acceptor = [args |-> << "interface {}" >>, out |-> << "error" >>]
        IN  /\ output.producer <=> produces
            /\ output.acceptor <=> accepts
            /\ output.apparent = IF produces THEN input.producer.out[1] ELSE input.type.name

----------------------------------------------------------------------------
(* package sketch: Template.  The synthesized program mounts the system     *)
(* templates on "/system" and user directory i (from 0) on "/usr<i>"; mount *)
(* m is 0 for the system templates and i + 1 for user directory i.  A       *)
(* source holds one .tmpl file, which defines the block or does not.        *)

\* how many user template directories are given at most
MaxDirs == 11

\* the decimal digits of i, as printed by the template for "/usr{{ $i }}"
RECURSIVE Digits(_)
Digits(i) == IF i < 10 THEN << i >> ELSE Digits(i \div 10) \o << i % 10 >>

\* Go's < on sequences of digit characters
RECURSIVE DigitsLess(_, _)
DigitsLess(a, b) ==
    IF a = <<>> THEN b # <<>>
    ELSE IF b = <<>> THEN FALSE
    ELSE IF Head(a) # Head(b) THEN Head(a) < Head(b)
    ELSE DigitsLess(Tail(a), Tail(b))

\* Go's < on the mount prefixes "/system" and "/usr<i>"
PrefixLess(m1, m2) ==
    IF m1 = 0 THEN m2 # 0
    ELSE m2 # 0 /\ DigitsLess(Digits(m1 - 1), Digits(m2 - 1))

\* tmpl.srcs[prefix] = src, for the system templates and n user directories
AddFS(n) == 0 .. n

\* fs.WalkDir: the .tmpl files of the mounted sources in lexical order of
\* their names
RECURSIVE WalkDir(_)
WalkDir(srcs) ==
    IF srcs = {} THEN <<>>
    ELSE LET first == CHOOSE m \in srcs : \A o \in srcs \ {m} : PrefixLess(m, o)
         IN  << first >> \o WalkDir(srcs \ {first})

\* tt.ParseFS(&mfs, files...): each file parsed in turn, a block it defines
\* replacing the definition of that name parsed before; 0 stands for no
\* definition, m + 1 for the one of mount m
RECURSIVE ParseFS(_, _, _)
ParseFS(files, defines, block) ==
    IF files = <<>> THEN block
    ELSE ParseFS(Tail(files), defines,
                 IF Head(files) \in defines THEN Head(files) + 1 ELSE block)

\* func (tmpl *Template) Build(): the definition the block name resolves to
TemplateBuild(n, defines) == ParseFS(WalkDir(AddFS(n)), defines, 0)

InitTemplate ==
    /\ InitObjects
    /\ input \in { [dirs |-> n, defines |-> d] :
                      n \in 0 .. MaxDirs,
                      d \in { x \in SUBSET (0 .. MaxDirs) : Cardinality(x) \in 1 .. 2 } }
    /\ input.defines \subseteq 0 .. input.dirs
    /\ output = NoCall

DoTemplateBuild ==
    /\ output' = [fn |-> "Build", block |-> TemplateBuild(input.dirs, input.defines)]
    /\ UNCHANGED input
    /\ UNCHANGED nonFunVars

SpecTemplate == InitTemplate /\ [][DoTemplateBuild]_vars

\* C16: when the block is defined in two mounted sources, the template set
\* Build returns resolves it to the definition of the later-mounted one
\* (system first, then the user directories in the order given), for any
\* number of user directories.
C16_LaterSourceWins ==
    output.fn = "Build" =>
        \A m \in input.defines :
            (\A o \in input.defines : o <= m) => output.block = m + 1

----------------------------------------------------------------------------
(* The synthesized program: names of the files it writes.                   *)
(* A string is a sequence of pieces, "." being the dot and every other      *)
(* piece a non-empty text holding neither a dot nor a path separator; a     *)
(* path is [dir, base]: its directories, and its last element.              *)

\* how many pieces the last element of a template name has at most
MaxName == 4

Dot == "."

\* strings.LastIndex(base, "."), counted in pieces from 1; 0 for Go's -1
LastIndexDot(base) ==
    IF \E i \in DOMAIN base : base[i] = Dot
    THEN CHOOSE i \in DOMAIN base : base[i] = Dot /\ \A j \in DOMAIN base : base[j] = Dot => j <= i
    ELSE 0

\* xstrings.Snake on the schema names in use
Snake(name) ==
    CASE name = "MyObj" -> << "my_obj" >>
      [] OTHER -> << name >>

\* execFileTemplate with "_gen" put before any last dot, a leading one too
execFileTemplate_AnyDot(outputDir, filename) ==
    LET base == filename.base
        i == LastIndexDot(base)
    IN  [dir  |-> outputDir \o filename.dir,
         base |-> IF i > 0
                  THEN SubSeq(base, 1, i - 1) \o << "_gen" >> \o SubSeq(base, i, Len(base))
                  ELSE base \o << "_gen" >>]

\* execFileTemplate: the file written for filename under outputDir
\* (Go's i > 0 is a dot that is not the first piece)
execFileTemplate(outputDir, filename) ==
    LET base == filename.base
        i == LastIndexDot(base)
    IN  [dir  |-> outputDir \o filename.dir,
         base |-> IF i > 1
                  THEN SubSeq(base, 1, i - 1) \o << "_gen" >> \o SubSeq(base, i, Len(base))
                  ELSE base \o << "_gen" >>]

\* the file name a files/per-object/ template gives for a schema
PerObjectName(name, src) ==
    IF name.dir = <<>> /\ name.base = << "object", Dot, "go" >>
    THEN [dir |-> <<>>,
          base |-> (IF src.FilenameBase = <<>> THEN Snake(src.Name) ELSE src.FilenameBase)
                       \o << Dot, "go" >>]
    ELSE [dir |-> name.dir, base |-> Snake(src.Name) \o name.base]

\* the file name a files/per-run/ template gives
PerRunName(name) == name

BaseNames ==
    UNION { [1 .. n -> {"a", Dot}] : n \in 1 .. MaxName } \cup { << "object", Dot, "go" >> }

InitFiles ==
    /\ InitObjects
    /\ input \in [ kind : {"per-object", "per-run"},
                   name : [dir : { <<>>, << "v1.0" >> }, base : BaseNames],
                   src  : [Name : {"MyObj"}, FilenameBase : { <<>>, << "custom" >> }] ]
    /\ output = NoCall

\* one round of the loop over tmpl.Templates(), for one schema
DoExecFileTemplate ==
    LET name == IF input.kind = "per-object"
                THEN PerObjectName(input.name, input.src)
                ELSE PerRunName(input.name)
    IN
    /\ output' = [fn |-> "execFileTemplate", name |-> name,
                  file |-> execFileTemplate(<< "out" >>, name)]
    /\ UNCHANGED input
    /\ UNCHANGED nonFunVars

SpecFiles == InitFiles /\ [][DoExecFileTemplate]_vars

MaxDepth == 2
MaxFaults == 2

\* strings.Split(srcDir, sepStr) of an absolute, cleaned path (the result of
\* filepath.Abs) that lies d directories below the root: "/" splits into
\* two empty strings, "/d/d" into an empty string and the two names.
SplitPath(d) ==
    IF d = 0 THEN << "", "" >> ELSE << "" >> \o [i \in 1 .. d |-> "d"]

\* len(strings.Join(comps, sepStr)): every name is one character long.
JoinLen(comps) ==
    IF Len(comps) = 0 THEN 0
    ELSE Cardinality({ i \in 1 .. Len(comps) : comps[i] # "" }) + Len(comps) - 1

\* The directory strings.Join(comps, sepStr) names, as its depth below the
\* root.
DirDepth(comps) ==
    IF comps = << "", "" >> THEN 0 ELSE Len(comps) - 1

NoModule == <<>>

\* The loop of RunMain that looks for go.mod: stat srcDir/go.mod, stop at
\* the first hit, otherwise drop the last component and go on while the
\* remaining path is not the empty string.
RECURSIVE moduleSearch(_, _)
moduleSearch(comps, gomodAt) ==
    IF JoinLen(comps) = 0 THEN NoModule
    ELSE IF DirDepth(comps) \in gomodAt THEN comps
    ELSE moduleSearch(SubSeq(comps, 1, Len(comps) - 1), gomodAt)

\* Places where the environment can make a call of RunMain fail.
FaultPoints ==
    { "mkdirtemp", "readgomod", "extract", "copy.open", "copy.write",
      "gomod.open", "gomod.write", "main.go", "tidy", "build", "run" }

RunInputs ==
    { [remove |-> r, faults |-> f, depth |-> d, gomodAt |-> g] :
        r \in BOOLEAN,
        f \in { x \in SUBSET FaultPoints : Cardinality(x) <= MaxFaults },
        d \in 0 .. MaxDepth,
        g \in SUBSET (0 .. MaxDepth) }

InitRunMain ==
    /\ InitObjects
    /\ input \in { i \in RunInputs : i.gomodAt \subseteq 0 .. i.depth }
    /\ output = [fn |-> "RunMain", pc |-> "MkdirTemp", err |-> "",
                 tmp |-> "none", started |-> <<>>, failed |-> {},
                 moduleDir |-> NoModule]

removeTmpdir_Always(remove, tmp) ==
    "removed"

\* The deferred function registered after os.MkdirTemp.
removeTmpdir(remove, tmp) ==
    IF ~remove THEN tmp ELSE "removed"

\* A return of RunMain after the deferred function was registered.
Return(o, err) ==
    [o EXCEPT !.pc = "done", !.err = err,
              !.tmp = removeTmpdir(input.remove, @)]

\* One phase: it is started, something in it fails or not, and a reported
\* error returns from RunMain while anything else goes on to the next phase.
Phase(name, fails, err, next) ==
    LET o == [output EXCEPT !.started = Append(@, name),
                            !.failed = IF fails THEN @ \cup {name} ELSE @]
    IN  /\ output.pc = name
        /\ output' = IF err # "" THEN Return(o, err)
                     ELSE IF next = "done" THEN Return(o, "")
                     ELSE [o EXCEPT !.pc = next]
        /\ UNCHANGED << input, nonFunVars >>

DoMkdirTemp ==
    /\ output.pc = "MkdirTemp"
    /\ output' = IF "mkdirtemp" \in input.faults
                 THEN [output EXCEPT !.pc = "done",
                                     !.err = "failed to create temporary directory"]
                 ELSE [output EXCEPT !.pc = "ModuleRoot", !.tmp = "exists"]
    /\ UNCHANGED << input, nonFunVars >>

DoModuleRoot ==
    LET moduleDir == moduleSearch(SplitPath(input.depth), input.gomodAt)
        o == [output EXCEPT !.started = Append(@, "ModuleRoot"),
                            !.moduleDir = moduleDir]
    IN  /\ output.pc = "ModuleRoot"
        /\ output' = IF moduleDir = NoModule
                     THEN Return(o, "failed to find go.mod")
                     ELSE [o EXCEPT !.pc = "ReadGoMod"]
        /\ UNCHANGED << input, nonFunVars >>

DoReadGoMod ==
    Phase("ReadGoMod", "readgomod" \in input.faults,
          IF "readgomod" \in input.faults THEN "failed to read from go.mod" ELSE "",
          "ExtractStructs")

DoExtractStructs ==
    Phase("ExtractStructs", "extract" \in input.faults,
          IF "extract" \in input.faults THEN "failed to extract structs" ELSE "",
          "GenCompiler")

\* generateGoMod: the result of buf.WriteTo(f) is dropped.
generateGoMod(faults) ==
    IF "gomod.open" \in faults THEN "failed to open file" ELSE ""

generateCompilerMain(faults) ==
    IF "main.go" \in faults THEN "failed to open file" ELSE ""

\* genCompiler: the result of io.Copy(dst, src) is dropped.
genCompiler(faults) ==
    IF "copy.open" \in faults THEN "failed to open file for writing"
    ELSE IF generateGoMod(faults) # "" THEN "failed to generate go.mod"
    ELSE IF generateCompilerMain(faults) # "" THEN "failed to generate compiler code"
    ELSE ""

\* What goes wrong inside genCompiler, reported or not: a step is reached
\* unless an earlier one returned.
genCompilerFails(faults) ==
    \/ "copy.open" \in faults
    \/ "copy.write" \in faults
    \/ "gomod.open" \in faults
    \/ "gomod.write" \in faults
    \/ "main.go" \in faults

DoGenCompiler ==
    Phase("GenCompiler", genCompilerFails(input.faults),
          genCompiler(input.faults), "GoModTidy")

DoGoModTidy ==
    Phase("GoModTidy", "tidy" \in input.faults,
          IF "tidy" \in input.faults THEN "failed to build compiler" ELSE "",
          "GoBuild")

DoGoBuild ==
    Phase("GoBuild", "build" \in input.faults,
          IF "build" \in input.faults THEN "failed to build compiler" ELSE "",
          "RunCompiler")

DoRunCompiler ==
    Phase("RunCompiler", "run" \in input.faults,
          IF "run" \in input.faults THEN "failed to build compiler" ELSE "",
          "done")

NextRunMain ==
    \/ DoMkdirTemp
    \/ DoModuleRoot
    \/ DoReadGoMod
    \/ DoExtractStructs
    \/ DoGenCompiler
    \/ DoGoModTidy
    \/ DoGoBuild
    \/ DoRunCompiler

SpecRunMain == InitRunMain /\ [][NextRunMain]_vars

PhaseOrder ==
    << "ModuleRoot", "ReadGoMod", "ExtractStructs", "GenCompiler",
       "GoModTidy", "GoBuild", "RunCompiler" >>

\* C18: the phases of RunMain are started in their fixed order, each at most
\* once; no phase is started after a phase in which something failed, and a
\* run in which something failed ends with an error.
C18_SequentialFatal ==
    output.fn = "RunMain" =>
        /\ Len(output.started) <= Len(PhaseOrder)
        /\ output.started = SubSeq(PhaseOrder, 1, Len(output.started))
        /\ \A i \in 1 .. Len(output.started) :
              output.started[i] \in output.failed => i = Len(output.started)
        /\ (output.pc = "done" /\ output.failed # {}) => output.err # ""

C20_NearestModuleRoot ==
    (output.fn = "RunMain" /\ Len(output.started) >= 1) =>
        LET with == { k \in 0 .. input.depth : k \in input.gomodAt }
        IN  /\ (Len(output.started) = 1 /\ output.err = "failed to find go.mod")
                 <=> with = {}
            /\ with # {} =>
                 /\ output.moduleDir # NoModule
                 /\ DirDepth(output.moduleDir) \in with
                 /\ \A k \in with : k <= DirDepth(output.moduleDir)

\* ---------------------------------------------------------------------
\* extractStructs and looksLikeSchema (src/gen/cli.go): the struct types
\* of the declaration directory that embed the schema package's Base.
\* ---------------------------------------------------------------------

MaxMembers == 2

SketchSchema == "github.com/lestrrat-go/sketch/schema"
OtherSchema == "example.com/other/schema"

\* An import declaration: Name is "" when no alias is written (imp.Name is
\* nil).
ImportSpecs ==
    { [Path |-> p, Name |-> n] : p \in {SketchSchema, OtherSchema}, n \in {"", "s"} }

\* The name a file gives an imported package: the alias, or the last element
\* of the path, which is "schema" for both packages.
LocalName(imp) ==
    IF imp.Name # "" THEN imp.Name ELSE "schema"

\* Import lists of a file: no name is bound twice.
ImportLists ==
    { <<>> } \cup { << i >> : i \in ImportSpecs }
             \cup { << i, j >> : i, j \in ImportSpecs }

FileImports ==
    { l \in ImportLists :
        \A i, j \in 1 .. Len(l) : i # j => LocalName(l[i]) # LocalName(l[j]) }

\* A member of a struct type: named or anonymous; its type is a selector
\* X.Sel, a plain identifier (X is "") or a pointer to a selector.
Members ==
    { [named |-> n, expr |-> "selector", X |-> x, Sel |-> s] :
        n \in BOOLEAN, x \in {"schema", "s"}, s \in {"Base", "Other"} }
    \cup { [named |-> FALSE, expr |-> "ident", X |-> "", Sel |-> "Base"],
           [named |-> FALSE, expr |-> "star", X |-> "schema", Sel |-> "Base"] }

RECURSIVE SeqsUpTo(_, _)
SeqsUpTo(S, n) ==
    IF n = 0 THEN { <<>> }
    ELSE LET shorter == SeqsUpTo(S, n - 1)
         IN  shorter \cup { Append(q, x) : q \in shorter, x \in S }

SourceFiles ==
    { [Imports |-> i, Name |-> "T", Fields |-> m] :
        i \in FileImports, m \in SeqsUpTo(Members, MaxMembers) }

\* The loop over file.Imports: the last import of the schema package that
\* has an alias gives the name, "schema" otherwise.
RECURSIVE schemaPkgOf(_, _)
schemaPkgOf(imports, schemaPkg) ==
    IF imports = <<>> THEN schemaPkg
    ELSE schemaPkgOf(Tail(imports),
                     IF Head(imports).Path = SketchSchema /\ Head(imports).Name # ""
                     THEN Head(imports).Name ELSE schemaPkg)

RECURSIVE looksLikeSchema(_, _)
looksLikeSchema(schemaPkg, list) ==
    IF list = <<>> THEN FALSE
    ELSE LET field == Head(list)
         IN  IF field.named THEN looksLikeSchema(schemaPkg, Tail(list))
             ELSE IF field.expr # "selector" THEN looksLikeSchema(schemaPkg, Tail(list))
             ELSE IF field.X # schemaPkg THEN looksLikeSchema(schemaPkg, Tail(list))
             ELSE IF field.Sel # "Base" THEN looksLikeSchema(schemaPkg, Tail(list))
             ELSE TRUE

\* extractStructs for a directory with one file that declares one struct
\* type.
extractStructs(file) ==
    LET schemaPkg == schemaPkgOf(file.Imports, "schema")
    IN  IF looksLikeSchema(schemaPkg, file.Fields) THEN << file.Name >> ELSE <<>>

InitExtract ==
    /\ InitObjects
    /\ input \in SourceFiles
    /\ output = NoCall

DoExtractSchemas ==
    /\ output = NoCall
    /\ output' = [fn |-> "extractStructs", schemas |-> extractStructs(input)]
    /\ UNCHANGED << input, nonFunVars >>

SpecExtract == InitExtract /\ [][DoExtractSchemas]_vars

\* C21: a struct type is recorded if and only if it has an anonymous member
\* P.Base, P being the name under which its file imports the schema package
\* (the alias, else "schema"); with no such import, or with a Base of
\* another package, it is not recorded.
C21_RecordsSchemaBase ==
    output.fn = "extractStructs" =>
        LET names == { LocalName(input.Imports[i]) :
                         i \in { j \in 1 .. Len(input.Imports) :
                                   input.Imports[j].Path = SketchSchema } }
            embeds == \E k \in 1 .. Len(input.Fields) :
                          /\ ~input.Fields[k].named
                          /\ input.Fields[k].expr = "selector"
                          /\ input.Fields[k].X \in names
                          /\ input.Fields[k].Sel = "Base"
        IN  (output.schemas = << input.Name >>) <=> embeds

\* ---------------------------------------------------------------------
\* schema.Field (src/unnamed/part_004): the constructor of a FieldSpec.
\* ---------------------------------------------------------------------

MaxFieldName == 2

\* Characters of a field name: upper-case and lower-case ASCII letters, a
\* lower-case letter of two bytes, a digit, the underscore and a hyphen.
NameChars == { "A", "a", "é", "1", "_", "-" }

FieldNames == SeqsUpTo(NameChars, MaxFieldName)

\* rune(name[0]): the first byte of the name taken as a code point; the
\* first byte of "é" (0xC3) is the code point of "Ã".
FirstByteRune(name) ==
    IF name[1] = "é" THEN "Ã" ELSE name[1]

\* unicode.IsUpper
IsUpper(r) == r \in { "A", "Ã" }

IsLetter(r) == r \in { "A", "a", "é", "Ã", "_" }

IsDigit(r) == r = "1"

NilValue == [dyn |-> "nil"]

\* The second argument: nil, a *TypeSpec, or any other Go value.
FieldTypes ==
    { NilValue,
      [dyn |-> "*TypeSpec",
       v |-> Type(ReflectType("Level", "Int", "", {}))],
      [dyn |-> "value", v |-> ReflectType("string", "String", "", {})] }

Field(name, typ) ==
    IF Len(name) <= 0 \/ ~IsUpper(FirstByteRune(name))
    THEN [panic |-> "schema fields must be provided an exported name"]
    ELSE IF typ = NilValue
    THEN [panic |-> "schema.Field must receive a non-nil second parameter"]
    ELSE [panic |-> "",
          name |-> name,
          typ |-> IF typ.dyn = "*TypeSpec" THEN typ.v ELSE Type(typ.v)]

InitField ==
    /\ InitObjects
    /\ input \in { [name |-> n, typ |-> t] : n \in FieldNames, t \in FieldTypes }
    /\ output = NoCall

DoField ==
    /\ output = NoCall
    /\ output' = [fn |-> "Field", f |-> Field(input.name, input.typ)]
    /\ UNCHANGED << input, nonFunVars >>

SpecField == InitField /\ [][DoField]_vars

\* C22: Field panics unless the name is an exported identifier (not empty,
\* an upper-case letter first, identifier characters throughout) and typ is
\* not nil; otherwise it returns a FieldSpec of that name.
C22_FieldFailsFast ==
    output.fn = "Field" =>
        LET name == input.name
            public == /\ Len(name) > 0
                      /\ name[1] \in { "A" }
                      /\ \A i \in 1 .. Len(name) : IsLetter(name[i]) \/ IsDigit(name[i])
            valid == public /\ input.typ # NilValue
        IN  /\ (output.f.panic = "") <=> valid
            /\ valid => output.f.name = name

\* ---------------------------------------------------------------------
\* The --var arguments of RunMain (src/gen/cli.go): reMatchVar and the
\* conversion of the value.  A string is the sequence of its pieces.
\* ---------------------------------------------------------------------

MaxVars == 1

VarTypes == { "bool", "string", "int" }

\* The parts an argument is written from: NAME, "=", VALUE and ":TYPE".
VarArgs ==
    { [name |-> n, sep |-> s, value |-> v, suffix |-> x] :
        n \in { <<>>, << "foo" >> },
        s \in { <<>>, << "=" >> },
        v \in { <<>>, << "true" >>, << "12" >>, << "x" >>,
                << "a", "=", "b" >>, << "a", ":", "b" >> },
        x \in { <<>>, << ":", "bool" >>, << ":", "int" >>, << ":", "string" >>,
                << ":", "float" >>, << ":" >> } }

ArgText(a) == a.name \o a.sep \o a.value \o a.suffix

NoMatch == [ok |-> FALSE]

\* ([^=]+)=(.+)(?::(bool|string|int))? matched at position i, the first
\* group ending before position e: the greedy second group is tried with
\* its longest extent first, which is the rest of the text, and at each
\* extent the type group is tried before the empty alternative.  The empty
\* alternative succeeds at once, so the first extent tried is the match.
matchValue(s, i, e) ==
    LET n == Len(s)
    IN  IF n < e + 2 THEN NoMatch
        ELSE IF /\ n + 2 <= Len(s)
                /\ s[n + 1] = ":"
                /\ s[n + 2] \in VarTypes
             THEN [ok |-> TRUE, m1 |-> SubSeq(s, i, e), m2 |-> SubSeq(s, e + 2, n),
                   m3 |-> << s[n + 2] >>]
             ELSE [ok |-> TRUE, m1 |-> SubSeq(s, i, e), m2 |-> SubSeq(s, e + 2, n),
                   m3 |-> <<>>]

\* The first group at position i: the longest run without "=", which the
\* "=" has to follow.
RECURSIVE matchAt(_, _, _)
matchAt(s, i, e) ==
    IF e < i THEN NoMatch
    ELSE IF /\ \A k \in i .. e : s[k] # "="
            /\ e + 1 <= Len(s)
            /\ s[e + 1] = "="
            /\ matchValue(s, i, e).ok
         THEN matchValue(s, i, e)
         ELSE matchAt(s, i, e - 1)

\* reMatchVar.FindAllStringSubmatch(sv, -1)[0]: the leftmost match.
RECURSIVE FindSubmatch(_, _)
FindSubmatch(s, i) ==
    IF i > Len(s) THEN NoMatch
    ELSE IF matchAt(s, i, Len(s)).ok THEN matchAt(s, i, Len(s))
    ELSE FindSubmatch(s, i + 1)

\* strconv.ParseBool and strconv.ParseInt on the values used here.
ParseBool(s) ==
    IF s = << "true" >> THEN [err |-> "", v |-> TRUE] ELSE [err |-> "invalid syntax"]

ParseInt(s) ==
    IF s = << "12" >> THEN [err |-> "", v |-> 12] ELSE [err |-> "invalid syntax"]

\* The loop over c.StringSlice("var").
RECURSIVE parseVars(_, _)
parseVars(svs, variables) ==
    IF svs = <<>> THEN [err |-> "", variables |-> variables]
    ELSE LET matches == FindSubmatch(Head(svs), 1)
         IN  IF ~matches.ok THEN [err |-> "invalid variable declaration"]
             ELSE IF matches.m3 \in { <<>>, << "string" >> }
             THEN parseVars(Tail(svs),
                     variables \cup { [name |-> matches.m1, t |-> "string", s |-> matches.m2] })
             ELSE IF matches.m3 = << "int" >>
             THEN IF ParseInt(matches.m2).err # ""
                  THEN [err |-> "failed to parse as bool"]
                  ELSE parseVars(Tail(svs),
                          variables \cup { [name |-> matches.m1, t |-> "int64",
                                            i |-> ParseInt(matches.m2).v] })
             ELSE IF matches.m3 = << "bool" >>
             THEN IF ParseBool(matches.m2).err # ""
                  THEN [err |-> "failed to parse as bool"]
                  ELSE parseVars(Tail(svs),
                          variables \cup { [name |-> matches.m1, t |-> "bool",
                                            b |-> ParseBool(matches.m2).v] })
             ELSE [err |-> "unhandled variable type"]

InitVars ==
    /\ InitObjects
    /\ input \in { [vars |-> v] : v \in SeqsUpTo(VarArgs, MaxVars) }
    /\ output = NoCall

DoParseVars ==
    /\ output = NoCall
    /\ output' = [fn |-> "parseVars",
                  r |-> parseVars([i \in 1 .. Len(input.vars) |-> ArgText(input.vars[i])], {})]
    /\ UNCHANGED << input, nonFunVars >>

SpecVars == InitVars /\ [][DoParseVars]_vars

\* C23: NAME=VALUE:TYPE with TYPE bool, int or string stores VALUE
\* converted to TYPE under NAME, NAME=VALUE stores the string VALUE, and a
\* VALUE that cannot be converted makes the run fail.
C23_TypedVar ==
    (output.fn = "parseVars" /\ Len(input.vars) = 1) =>
        LET a == input.vars[1]
            typ == IF a.suffix = <<>> THEN "" ELSE a.suffix[2]
            claimed == /\ a.name # <<>>
                       /\ a.sep # <<>>
                       /\ a.value \in { << "true" >>, << "12" >>, << "x" >> }
                       /\ a.suffix \in { <<>>, << ":", "bool" >>, << ":", "int" >>,
                                         << ":", "string" >> }
        IN  claimed =>
              CASE typ \in { "", "string" } ->
                     /\ output.r.err = ""
                     /\ output.r.variables = { [name |-> a.name, t |-> "string", s |-> a.value] }
                [] typ = "bool" ->
                     IF a.value = << "true" >>
                     THEN /\ output.r.err = ""
                          /\ output.r.variables = { [name |-> a.name, t |-> "bool", b |-> TRUE] }
                     ELSE output.r.err # ""
                [] typ = "int" ->
                     IF a.value = << "12" >>
                     THEN /\ output.r.err = ""
                          /\ output.r.variables = { [name |-> a.name, t |-> "int64", i |-> 12] }
                     ELSE output.r.err # ""

\* ---------------------------------------------------------------------
\* Readers running while UnmarshalJSON is between its reset of the
\* declared fields and its return.  The storage as it was when the call
\* began is kept in output, so that what a reader sees can be compared
\* with the object before and after the call.
\* ---------------------------------------------------------------------

\* UnmarshalJSON resets every field (ResetStorage), the storage it found
\* being remembered.
ResetStorageFrom(p) ==
    /\ calls[p].pc = "body"
    /\ calls[p].method = "UnmarshalJSON"
    /\ fields' = ResetFields(fields)
    /\ calls' = [calls EXCEPT ![p].pc = "loop"]
    /\ output' = [fn |-> "UnmarshalJSON", fields |-> fields, extra |-> extra]
    /\ UNCHANGED <<extra, res, mu, bldVars, input>>

NextPartial ==
    \E p \in Callers :
        \/ CallMethod(p)
        \/ AcquireLock(p)
        \/ ResetStorageFrom(p)
        \/ ReturnFrom(p)

SpecPartial == Init /\ [][NextPartial]_vars

\* What a reader returns on a given storage.
Observe(method, arg, flds, ext) ==
    CASE method = "Get" -> [op |-> "Get", key |-> arg, ret |-> Get(flds, ext, arg)]
      [] method = "Has" ->
            [op |-> "Has", key |-> arg, ret |-> Has(flds, Fields[CaseOf("name")])]
      [] method = "Accessor" ->
            [op |-> "Accessor", key |-> arg, ret |-> Accessor(flds, Fields[CaseOf("name")])]
      [] method = "MarshalJSON" ->
            [op |-> "MarshalJSON", bytes |-> MarshalJSON(flds, ext, <<>>)]

\* C24: a reader that returns while another caller is inside UnmarshalJSON
\* returns what it would return on the object as it was before that call
\* or as it is after the call, never what only the half-decoded object gives.
C24_NoPartialUpdate ==
    [][ \A p, q \in Callers :
          ( /\ p # q
            /\ calls[p].pc = "loop"
            /\ calls[q].pc = "body"
            /\ ~Writes(calls[q].method)
            /\ calls'[q].pc = "idle" )
          => LET after == UnmarshalLoop(Tokens(DocOf(calls[p].arg)), 1, fields, extra)
             IN  res' \in { Observe(calls[q].method, calls[q].arg,
                                    output.fields, output.extra),
                            Observe(calls[q].method, calls[q].arg,
                                    after.fields, after.extra) } ]_vars

\* ---------------------------------------------------------------------
\* The frame of UnmarshalJSON: declared fields follow the input, extra
\* entries not named in the input stay.
\* ---------------------------------------------------------------------

\* every extra entry of the storage before the step whose key the input
\* does not name is in the storage after it, with its value
ExtraKept(doc) ==
    \A k \in MapKeys(extra) \ DocKeys(doc) :
        /\ k \in MapKeys(extra')
        /\ extra'.m[k] = extra.m[k]

MaxFields == 3

\* The field names of the fixture in the order of Go's < on strings.
FieldNameOrder == << "Attrs", "Internal", "Level", "List", "Name", "Tags" >>

NameRank(name) == CHOOSE n \in DOMAIN FieldNameOrder : FieldNameOrder[n] = name

\* fields[i].GetName() < fields[j].GetName()
NameLess(f, g) == NameRank(GetName(f)) < NameRank(GetName(g))

\* What an author's Fields() returns: some of the fields, in any order.
FieldLists ==
    { [i \in DOMAIN s |-> Fields[s[i]]] :
        s \in { q \in SeqsUpTo(FieldIdx, MaxFields) :
                  \A i, j \in DOMAIN q : i # j => q[i] # q[j] } }

insertField(sorted, f) ==
    LET k == Cardinality({ i \in DOMAIN sorted : NameLess(sorted[i], f) })
    IN  SubSeq(sorted, 1, k) \o << f >> \o SubSeq(sorted, k + 1, Len(sorted))

sortSlice_Unsorted(fs) == fs

\* sort.Slice(fields, less) on fields of distinct names
RECURSIVE sortSlice(_)
sortSlice(fs) ==
    IF fs = <<>> THEN <<>> ELSE insertField(sortSlice(Tail(fs)), Head(fs))

\* const ( {{ range .Fields }} <Name>Key = "<json>" {{ end }} )
RenderKeyConstants(fs) ==
    [i \in DOMAIN fs |-> [const |-> GetName(fs[i]) \o "Key", value |-> GetJSON(fs[i])]]

\* the sections written once per field, here the Has<Name> methods
RenderHasMethods(fs) ==
    [i \in DOMAIN fs |-> "Has" \o GetName(fs[i])]

InitMain ==
    /\ InitObjects
    /\ input \in { [Fields |-> l] : l \in FieldLists }
    /\ output = NoCall

\* one turn of the loop over srcs in _main, up to the rendered object.go
DoMain ==
    /\ output = NoCall
    /\ LET fs == sortSlice(input.Fields)
       IN  output' = [fn |-> "_main",
                      Fields |-> fs,
                      keys |-> RenderKeyConstants(fs),
                      has |-> RenderHasMethods(fs)]
    /\ UNCHANGED << input, nonFunVars >>

SpecMain == InitMain /\ [][DoMain]_vars

FieldSpec_Unexported(f, s) == [f |-> [f EXCEPT !.unexportedName = s], ret |-> ""]

FieldSpec_JSON(f, s) == [f |-> [f EXCEPT !.json = s], ret |-> ""]

FieldSpec_GetUnexportedName(f) ==
    LET g == IF f.unexportedName = ""
             THEN [f EXCEPT !.unexportedName = LowerCamel(f.name)] ELSE f
    IN  [f |-> g, ret |-> g.unexportedName]

FieldSpec_GetJSON(f) ==
    LET g == IF f.json = ""
             THEN LET u == FieldSpec_GetUnexportedName(f)
                  IN  [u.f EXCEPT !.json = u.ret]
             ELSE f
    IN  [f |-> g, ret |-> g.json]

UnexportedArgs == { "", "xName", "yName" }
JSONArgs == { "", "j_name" }

InitFieldSpec ==
    /\ InitObjects
    /\ input \in { [name |-> FieldNameOrder[n]] : n \in DOMAIN FieldNameOrder }
    /\ output = [fn |-> "Field", f |-> NewField(input.name, "string"),
                 jsonSet |-> FALSE, ret |-> ""]

FieldSpecCall(fn, r, jsonSet) ==
    /\ output' = [fn |-> fn, f |-> r.f, jsonSet |-> jsonSet, ret |-> r.ret]
    /\ UNCHANGED << input, nonFunVars >>

DoFieldUnexported ==
    \E s \in UnexportedArgs :
        FieldSpecCall("Unexported", FieldSpec_Unexported(output.f, s), output.jsonSet)

DoFieldJSON ==
    \E s \in JSONArgs :
        FieldSpecCall("JSON", FieldSpec_JSON(output.f, s), TRUE)

DoFieldGetUnexportedName ==
    FieldSpecCall("GetUnexportedName", FieldSpec_GetUnexportedName(output.f), output.jsonSet)

DoFieldGetJSON ==
    FieldSpecCall("GetJSON", FieldSpec_GetJSON(output.f), output.jsonSet)

NextFieldSpec ==
    \/ DoFieldUnexported
    \/ DoFieldJSON
    \/ DoFieldGetUnexportedName
    \/ DoFieldGetJSON

SpecFieldSpec == InitFieldSpec /\ [][NextFieldSpec]_vars

\* C27: as long as JSON(...) was never called on a FieldSpec, GetJSON()
\* returns what GetUnexportedName() returns, after any sequence of setter
\* and getter calls.
C27_JSONFollowsUnexported ==
    ~output.jsonSet =>
        FieldSpec_GetJSON(output.f).ret = FieldSpec_GetUnexportedName(output.f).ret

\* ---------------------------------------------------------------------
\* The capability setters of a type descriptor: TypeInfo.ImplementsGet and
\* ImplementsAccept (src/unnamed/part_005 and src/schema/schema.go), and
\* TypeSpec.GetValue, AcceptValue and their method-name setters
\* (src/unnamed/part_004).
\* ---------------------------------------------------------------------

\* src/unnamed/part_005
ImplementsAccept(ti, b) == [ti EXCEPT !.implementsGet = b]

\* src/schema/schema.go
TypeInfo_ImplementsGet(ti, b) == [ti EXCEPT !.implementsGet = b]

TypeInfo_ImplementsAccept(ti, b) == [ti EXCEPT !.implementsAccept = b]

\* src/unnamed/part_004
GetValueMethodName(ts, s) == [ts EXCEPT !.getValueMethodName = s]

GetValue(ts, b) ==
    IF b THEN GetValueMethodName(ts, "GetValue") ELSE GetValueMethodName(ts, "")

AcceptValueMethodName(ts, s) == [ts EXCEPT !.acceptValueMethodName = s]

AcceptValue(ts, b) ==
    IF b THEN AcceptValueMethodName(ts, "AcceptValue") ELSE AcceptValueMethodName(ts, "")

MethodNames == { "", "Bytes", "Take" }

InitCapability ==
    /\ InitObjects
    /\ input = NoCall
    /\ \E g, a \in BOOLEAN :
          output = [fn |-> "new",
                    old |-> ImplementsGet(TypeByName("Names", TRUE, FALSE), g),
                    new |-> TypeInfo_ImplementsAccept(
                                TypeInfo_ImplementsGet(TypeByName("Names", TRUE, FALSE), g), a),
                    ts |-> Type(Reflect([name |-> "Names", kind |-> "Slice", elem |-> "string"],
                                        IF g THEN [args |-> <<>>, out |-> << "[]string" >>]
                                        ELSE NoSig,
                                        IF a THEN [args |-> << "interface {}" >>,
                                                   out |-> << "error" >>]
                                        ELSE NoSig,
                                        "GetValue", "AcceptValue"))]

CapabilityCall(fn, old, new, ts) ==
    /\ output' = [fn |-> fn, old |-> old, new |-> new, ts |-> ts]
    /\ UNCHANGED << input, nonFunVars >>

DoImplementsGet ==
    \E b \in BOOLEAN :
        \/ CapabilityCall("ImplementsGet", ImplementsGet(output.old, b), output.new, output.ts)
        \/ CapabilityCall("ImplementsGet", output.old,
                          TypeInfo_ImplementsGet(output.new, b), output.ts)

DoImplementsAccept ==
    \E b \in BOOLEAN :
        \/ CapabilityCall("ImplementsAccept", ImplementsAccept(output.old, b),
                          output.new, output.ts)
        \/ CapabilityCall("ImplementsAccept", output.old,
                          TypeInfo_ImplementsAccept(output.new, b), output.ts)

DoGetValue ==
    \/ \E b \in BOOLEAN :
          CapabilityCall("GetValue", output.old, output.new, GetValue(output.ts, b))
    \/ \E s \in MethodNames :
          CapabilityCall("GetValueMethodName", output.old, output.new,
                         GetValueMethodName(output.ts, s))

DoAcceptValue ==
    \/ \E b \in BOOLEAN :
          CapabilityCall("AcceptValue", output.old, output.new, AcceptValue(output.ts, b))
    \/ \E s \in MethodNames :
          CapabilityCall("AcceptValueMethodName", output.old, output.new,
                         AcceptValueMethodName(output.ts, s))

NextCapability ==
    \/ DoImplementsGet
    \/ DoImplementsAccept
    \/ DoGetValue
    \/ DoAcceptValue

SpecCapability == InitCapability /\ [][NextCapability]_vars

\* C28: a setter of the acceptor capability leaves the producer attribute
\* of the descriptor as it was, and a setter of the producer capability
\* leaves the acceptor attribute as it was.
C28_IndependentCapabilities ==
    [][ /\ output'.fn \in { "ImplementsAccept", "AcceptValue", "AcceptValueMethodName" }
           => /\ output'.old.implementsGet = output.old.implementsGet
              /\ output'.new.implementsGet = output.new.implementsGet
              /\ output'.ts.getValueMethodName = output.ts.getValueMethodName
        /\ output'.fn \in { "ImplementsGet", "GetValue", "GetValueMethodName" }
           => /\ output'.old.implementsAccept = output.old.implementsAccept
              /\ output'.new.implementsAccept = output.new.implementsAccept
              /\ output'.ts.acceptValueMethodName = output.ts.acceptValueMethodName ]_vars

\* ---------------------------------------------------------------------
\* schema.TypeName (src/unnamed/part_004), next to schema.Type: the two
\* constructors applied to one and the same storage type.
\* ---------------------------------------------------------------------

TypeName(name) ==
    LET isSlice == HasPrefix(name, "[]")
        isMap == HasPrefix(name, "map[")
    IN  [ name         |-> name,
          apparentType |-> "",
          element      |-> IF isSlice THEN TrimPrefix(name, "[]") ELSE "sketch.UnknownType",
          ptrType      |-> IF HasPrefix(name, "*") THEN name
                           ELSE IF isSlice \/ isMap THEN name
                           ELSE "*" \o name,
          rawType      |-> IF HasPrefix(name, "*") THEN TrimPrefix(name, "*") ELSE name,
          getValueMethodName    |-> "",
          acceptValueMethodName |-> "",
          initArgStyle |-> IF isSlice THEN "InitializerArgumentAsSlice"
                           ELSE "InitializerArgumentAsSingleArg",
          supportsLen  |-> isSlice \/ isMap,
          isInterface  |-> FALSE ]

\* Storage types without capability methods, named as typeName names them.
PlainTypes ==
    { ReflectType("string", "String", "", {}),
      ReflectType("int", "Int", "", {}),
      ReflectType("main.Foo", "Struct", "", {}),
      ReflectType("*main.Foo", "Ptr", "main.Foo", {}),
      ReflectType("[]string", "Slice", "string", {}),
      ReflectType("map[string]int", "Map", "int", {}),
      ReflectType("chan int", "Chan", "int", {}),
      ReflectType("[3]int", "Array", "int", {}),
      ReflectType("bool", "Bool", "", {}),
      ReflectType("[]int", "Slice", "int", {}),
      ReflectType("*string", "Ptr", "string", {}) }

InitConstructors ==
    /\ InitObjects
    /\ input \in [type : PlainTypes, required : BOOLEAN, first : {"Type", "TypeName"}]
    /\ output = [fn |-> "", byType |-> <<>>, byName |-> <<>>]

\* schema.Field(name, schema.Type(v))
DoFieldOfType ==
    /\ output.byType = <<>>
    /\ input.first = "Type" \/ output.byName # <<>>
    /\ output' = [output EXCEPT !.fn = "Type",
                                !.byType = << Required(NewField("F", Type(input.type)),
                                                       input.required) >>]
    /\ UNCHANGED << input, nonFunVars >>

\* schema.Field(name, schema.TypeName(name of the type of v))
DoFieldOfTypeName ==
    /\ output.byName = <<>>
    /\ input.first = "TypeName" \/ output.byType # <<>>
    /\ output' = [output EXCEPT !.fn = "TypeName",
                                !.byName = << Required(NewField("F", TypeName(input.type.name)),
                                                       input.required) >>]
    /\ UNCHANGED << input, nonFunVars >>

NextConstructors ==
    \/ DoFieldOfType
    \/ DoFieldOfTypeName

SpecConstructors == InitConstructors /\ [][NextConstructors]_vars

\* C29: for a storage type without capability methods, Type and TypeName
\* give the same raw type, pointer type, element, length support and
\* initializer style; lists, maps and channels support len, and lists, maps
\* and pointers get no added indirection, under both constructors.
C29_SameDescriptor ==
    (output.byType # <<>> /\ output.byName # <<>>) =>
        LET t == output.byType[1].typ
            n == output.byName[1].typ
        IN  /\ t.rawType = n.rawType
            /\ t.ptrType = n.ptrType
            /\ t.element = n.element
            /\ t.supportsLen = n.supportsLen
            /\ t.initArgStyle = n.initArgStyle
            /\ input.type.kind \in {"Slice", "Map", "Chan"}
                 => (t.supportsLen /\ n.supportsLen)
            /\ input.type.kind \in {"Slice", "Map", "Ptr"}
                 => (t.ptrType = input.type.name /\ n.ptrType = input.type.name)

====
